---- MODULE Spec2Model ----
(***************************************************************************)
(* Model of hashmal's chainparams registry (core/chainparams.py) and of    *)
(* the schema-driven Transaction codec (core/transaction.py).              *)
(*                                                                         *)
(* Python values are carried as records of one shape (tag, i, b, ins,      *)
(* outs) so that values of different Python types can be compared.         *)
(* A byte string is a sequence of numbers 0..255.                          *)
(***************************************************************************)
EXTENDS Integers, Sequences, FiniteSets, TLC

\* ------------------------------------------------------------------ bounds
MaxTx == 2          \* number of Transaction objects that may exist
MaxOps == 3         \* number of operations performed in one run

\* ------------------------------------------------------------ Python values
\* The model checker's integers are 32 bits wide, so a Python integer is kept
\* as the pair <<q, r>> standing for q * 65536 + r with 0 <= r < 65536.
Num(n) == << n \div 65536, n % 65536 >>
Zero == << 0, 0 >>

Val(t, n, bs, is, os) == [tag |-> t, i |-> n, b |-> bs, ins |-> is, outs |-> os]
IntN(qr) == Val("int", qr, <<>>, <<>>, <<>>)
IntV(n) == IntN(Num(n))
BytesV(bs) == Val("bytes", Zero, bs, <<>>, <<>>)
InsV(is) == Val("ins", Zero, <<>>, is, <<>>)
OutsV(os) == Val("outs", Zero, <<>>, <<>>, os)
NoneV == Val("none", Zero, <<>>, <<>>, <<>>)
\* no such attribute on the object: getattr raises AttributeError
Absent == Val("absent", Zero, <<>>, <<>>, <<>>)

NoBytes == 0 - 1    \* num_bytes = None in a field tuple

Field(n, f, nb, d) == [name |-> n, fmt |-> f, num_bytes |-> nb, default |-> d]

Zeros(n) == [k \in 1..n |-> 0]

\* --------------------------------------------------------- chainparams data
_bitcoin_header_fields ==
    << Field("nVersion", "<i", 4, IntV(1)),
       Field("hashPrevBlock", "bytes", 32, BytesV(Zeros(32))),
       Field("hashMerkleRoot", "bytes", 32, BytesV(Zeros(32))),
       Field("nTime", "<I", 4, IntV(0)),
       Field("nBits", "<I", 4, IntV(0)),
       Field("nNonce", "<I", 4, IntV(0)) >>

_bitcoin_block_fields == << Field("vtx", "vectortx", NoBytes, NoneV) >>

_bitcoin_opcode_overrides == << >>

\* list(x): a new list with the same items
list(x) == x

\* ParamsPreset.__init__: the defaults, then the keyword arguments given
ParamsPreset(kwargs) ==
    [k \in {"name", "tx_fields", "block_header_fields", "block_fields", "opcode_overrides"} |->
        IF k \in DOMAIN kwargs THEN kwargs[k]
        ELSE CASE k = "name" -> ""
               [] k = "tx_fields" -> << >>
               [] k = "block_header_fields" -> list(_bitcoin_header_fields)
               [] k = "block_fields" -> list(_bitcoin_block_fields)
               [] k = "opcode_overrides" -> list(_bitcoin_opcode_overrides)]

BitcoinPreset ==
    ParamsPreset([name |-> "Bitcoin",
                  tx_fields |-> << Field("nVersion", "<i", 4, IntV(1)),
                                   Field("vin", "inputs", NoBytes, NoneV),
                                   Field("vout", "outputs", NoBytes, NoneV),
                                   Field("nLockTime", "<I", 4, IntV(0)) >>])

ClamsPreset ==
    ParamsPreset([name |-> "Clams",
                  tx_fields |-> << Field("nVersion", "<i", 4, IntV(1)),
                                   Field("Timestamp", "<i", 4, IntV(0)),
                                   Field("vin", "inputs", NoBytes, NoneV),
                                   Field("vout", "outputs", NoBytes, NoneV),
                                   Field("nLockTime", "<I", 4, IntV(0)),
                                   Field("ClamSpeech", "bytes", NoBytes, BytesV(<<>>)) >>,
                  block_fields |-> list(_bitcoin_block_fields)
                                   \o << Field("blockSig", "bytes", NoBytes, NoneV) >>,
                  opcode_overrides |-> << [value |-> 176,
                                           name |-> "OP_CHECKLOCKTIMEVERIFY",
                                           func |-> "clams_checklocktimeverify"] >>])

FreicoinPreset ==
    ParamsPreset([name |-> "Freicoin",
                  tx_fields |-> << Field("nVersion", "<i", 4, IntV(1)),
                                   Field("vin", "inputs", NoBytes, NoneV),
                                   Field("vout", "outputs", NoBytes, NoneV),
                                   Field("nLockTime", "<I", 4, IntV(0)),
                                   Field("RefHeight", "<i", 4, IntV(0)) >>])

PeercoinPreset ==
    ParamsPreset([name |-> "Peercoin",
                  tx_fields |-> << Field("nVersion", "<i", 4, IntV(1)),
                                   Field("Timestamp", "<i", 4, IntV(0)),
                                   Field("vin", "inputs", NoBytes, NoneV),
                                   Field("vout", "outputs", NoBytes, NoneV),
                                   Field("nLockTime", "<I", 4, IntV(0)) >>])

presets_list == << BitcoinPreset, ClamsPreset, FreicoinPreset, PeercoinPreset >>

PresetNames == { presets_list[k].name : k \in DOMAIN presets_list }

\* presets = dict((i.name, i) for i in presets_list)
presets == [n \in PresetNames |->
              CHOOSE p \in { presets_list[k] : k \in DOMAIN presets_list } : p.name = n]

\* ------------------------------------------------------------------- codec
\* the 4 bytes of the number <<q, r>> with the most significant byte first
BE4(qr) == << (qr[1] \div 256) % 256, qr[1] % 256, qr[2] \div 256, qr[2] % 256 >>

\* the 4 little-endian bytes of the number <<q, r>> (two's complement)
LE4(qr) == << qr[2] % 256, qr[2] \div 256, qr[1] % 256, (qr[1] \div 256) % 256 >>

\* the unsigned number held by 4 little-endian bytes
U32(bs) == << bs[3] + 256 * bs[4], bs[1] + 256 * bs[2] >>

\* the signed number held by 4 little-endian bytes
S32(bs) == LET u == U32(bs) IN IF u[1] >= 32768 THEN << u[1] - 65536, u[2] >> ELSE u

\* the 16-bit limbs, least significant first, of an even number of bytes
Limbs(bs) == [k \in 1..(Len(bs) \div 2) |-> bs[2 * k - 1] + 256 * bs[2 * k]]

\* the little-endian bytes of a sequence of 16-bit limbs
Unlimbs(ls) == [k \in 1..(2 * Len(ls)) |->
                  IF k % 2 = 1 THEN ls[(k + 1) \div 2] % 256 ELSE ls[k \div 2] \div 256]

IntFormats == {"<i", "<I"}

\* struct.calcsize(fmt) for the formats of IntFormats
calcsize(fmt) == 4

\* struct.pack(fmt, v): 4 little-endian bytes; struct.error when v is not an
\* integer in the range of the format, or fmt is not a struct format
pack(fmt, v) ==
    IF fmt \notin IntFormats \/ v.tag # "int"
    THEN [err |-> "struct.error", bytes |-> <<>>]
    ELSE IF fmt = "<i" /\ (v.i[1] < 0 - 32768 \/ v.i[1] > 32767)
    THEN [err |-> "struct.error", bytes |-> <<>>]
    ELSE IF fmt = "<I" /\ (v.i[1] < 0 \/ v.i[1] > 65535)
    THEN [err |-> "struct.error", bytes |-> <<>>]
    ELSE [err |-> "", bytes |-> LE4(v.i)]

\* struct.unpack(fmt, bs)[0]
unpack(fmt, bs) ==
    IF fmt \notin IntFormats \/ Len(bs) # calcsize(fmt)
    THEN [err |-> "struct.error", val |-> NoneV]
    ELSE [err |-> "", val |-> IntN(IF fmt = "<i" THEN S32(bs) ELSE U32(bs))]

\* A read stream f is the pair (data, pos).  A reader returns the exception
\* raised ("" for none), the value read and the new position.
Rd(e, v, p) == [err |-> e, val |-> v, pos |-> p]

\* bitcoin.core.serialize.MAX_SIZE = 0x02000000
MAX_SIZE == 33554432

\* what stands for every length of 2^31 or more
Huge == 32767 * 65536 + 65535

\* bitcoin.core.serialize.ser_read(f, n)
ser_read(data, pos, n) ==
    IF n > MAX_SIZE THEN Rd("SerializationError", <<>>, pos)
    ELSE IF Len(data) - pos < n THEN Rd("SerializationTruncationError", <<>>, Len(data))
    ELSE Rd("", SubSeq(data, pos + 1, pos + n), pos + n)

\* VarIntSerializer.stream_serialize, for 0 <= n < 2^31
VarInt(n) == IF n < 253 THEN << n >>
             ELSE IF n <= 65535 THEN << 253 >> \o Unlimbs(<< n >>)
             ELSE << 254 >> \o LE4(Num(n))

\* the number held by the 16-bit limbs ls; 2^31 or more reads as Huge
Length(ls) ==
    IF Len(ls) = 1 THEN ls[1]
    ELSE IF ls[2] >= 32768 \/ (Len(ls) = 4 /\ (ls[3] # 0 \/ ls[4] # 0)) THEN Huge
    ELSE ls[2] * 65536 + ls[1]

\* the width in bytes that follows the first byte b of a wide VarInt
VarIntWidth(b) == IF b = 253 THEN 2 ELSE IF b = 254 THEN 4 ELSE 8

\* VarIntSerializer.stream_deserialize
\* the wide value q read after the first byte
VarIntWide(q) == IF q.err # "" THEN q ELSE Rd("", Length(Limbs(q.val)), q.pos)
\* the first byte r read: the value itself, or the width of what follows
VarIntFirst(data, r) ==
    IF r.err # "" THEN r
    ELSE IF r.val[1] < 253 THEN Rd("", r.val[1], r.pos)
    ELSE VarIntWide(ser_read(data, r.pos, VarIntWidth(r.val[1])))
ReadVarInt(data, pos) == VarIntFirst(data, ser_read(data, pos, 1))

\* BytesSerializer.stream_serialize: length prefix, then the bytes
SerBytes(bs) == VarInt(Len(bs)) \o bs

\* BytesSerializer.stream_deserialize
BytesOfLength(data, l) == IF l.err # "" THEN l ELSE ser_read(data, l.pos, l.val)
ReadBytes(data, pos) == BytesOfLength(data, ReadVarInt(data, pos))

\* CTxIn: prevout (32-byte hash, unsigned 32-bit index), scriptSig, nSequence
TxIn(h, n, sig, seq) == [hash |-> h, n |-> n, scriptSig |-> sig, nSequence |-> seq]
\* CTxOut: 64-bit value (four 16-bit limbs), scriptPubKey
TxOut(v, spk) == [nValue |-> v, scriptPubKey |-> spk]

\* CTxIn.stream_serialize
SerTxIn(x) == x.hash \o LE4(x.n) \o SerBytes(x.scriptSig) \o LE4(x.nSequence)
\* CTxOut.stream_serialize
SerTxOut(x) == Unlimbs(x.nValue) \o SerBytes(x.scriptPubKey)

\* CTxIn.stream_deserialize
TxInSequence(h, n, s, q) ==
    IF q.err # "" THEN q ELSE Rd("", TxIn(h.val, U32(n.val), s.val, U32(q.val)), q.pos)
TxInScript(data, h, n, s) ==
    IF s.err # "" THEN s ELSE TxInSequence(h, n, s, ser_read(data, s.pos, 4))
TxInIndex(data, h, n) ==
    IF n.err # "" THEN n ELSE TxInScript(data, h, n, ReadBytes(data, n.pos))
TxInHash(data, h) ==
    IF h.err # "" THEN h ELSE TxInIndex(data, h, ser_read(data, h.pos, 4))
ReadTxIn(data, pos) == TxInHash(data, ser_read(data, pos, 32))

\* CTxOut.stream_deserialize
TxOutScript(v, s) ==
    IF s.err # "" THEN s ELSE Rd("", TxOut(Limbs(v.val), s.val), s.pos)
TxOutValue(data, v) ==
    IF v.err # "" THEN v ELSE TxOutScript(v, ReadBytes(data, v.pos))
ReadTxOut(data, pos) == TxOutValue(data, ser_read(data, pos, 8))

RECURSIVE SerItems(_, _)
SerItems(kind, objs) ==
    IF objs = <<>> THEN <<>>
    ELSE (IF kind = "inputs" THEN SerTxIn(Head(objs)) ELSE SerTxOut(Head(objs)))
         \o SerItems(kind, Tail(objs))

\* VectorSerializer.stream_serialize(cls, objs, f): the count, then every item
VectorSerialize(kind, objs) == VarInt(Len(objs)) \o SerItems(kind, objs)

RECURSIVE ReadItems(_, _, _, _, _)
\* the item x read, appended to the vector
ReadItemsStep(kind, data, n, acc, x) ==
    IF x.err # "" THEN x ELSE ReadItems(kind, data, x.pos, n - 1, Append(acc, x.val))
ReadItems(kind, data, pos, n, acc) ==
    IF n = 0 THEN Rd("", acc, pos)
    ELSE ReadItemsStep(kind, data, n, acc,
                       IF kind = "inputs" THEN ReadTxIn(data, pos) ELSE ReadTxOut(data, pos))

\* the vector of the n items that follow the count n
VectorOfCount(kind, data, n) ==
    IF n.err # "" THEN n ELSE ReadItems(kind, data, n.pos, n.val, <<>>)
\* VectorSerializer.stream_deserialize(cls, f)
VectorDeserialize(kind, data, pos) == VectorOfCount(kind, data, ReadVarInt(data, pos))

\* ------------------------------------------------------------------- state
VARIABLES
    transaction_fields,     \* transaction.transaction_fields
    block_header_fields,    \* block.block_header_fields
    block_fields,           \* block.block_fields
    overridden_opcodes,     \* opcodes.overridden_opcodes
    txs,                    \* the Transaction objects, in order of creation
    out,                    \* the bytes the last stream_serialize wrote
    outOf,                  \* the object they were written from, as it was then
    inp,                    \* the buffer the last stream_deserialize was given
    pos,                    \* how far it read
    last,                   \* the last call: what, with what, and the exception
    applied,                \* the name of the last preset applied
    nops,                   \* the number of calls made
    heap,                   \* the list objects that exist, by identity
    globals,                \* which list each module global is bound to
    tx_lists,               \* which list the fields of each Transaction is bound to
    script,                 \* the script handed to the template functions
    called,                 \* which of them was called with it
    item,                   \* what coerce_item returned
    verdict,                \* the template is_template_script was given, and its answer
    handler,                \* the PluginHandler, the docks of its plugins, the config
    window                  \* the HashmalMain window, its script editor, the files

vars == << transaction_fields, block_header_fields, block_fields, overridden_opcodes,
           txs, out, outOf, inp, pos, last, applied, nops, heap, globals, tx_lists,
           script, called, item, verdict, handler, window >>

\* the script templates
scriptVars == << script, called, item, verdict >>

\* the lists by identity
listVars == << heap, globals, tx_lists >>
\* the lists by value, the objects and the streams
codecVars == << transaction_fields, block_header_fields, block_fields, overridden_opcodes,
                txs, out, outOf, inp, pos, applied >>

regVars == << transaction_fields, block_header_fields, block_fields, overridden_opcodes >>
ioVars == << out, outOf, inp, pos >>

\* ------------------------------------------------------------- Transaction
\* the attribute names an object of the model may carry
AttrNames == {"nVersion", "vin", "vout", "nLockTime",
              "Timestamp", "ClamSpeech", "RefHeight", "Extra", "txins"}

\* an optional argument: None, or a value
None == << >>
Some(x) == << x >>

\* CMutableTransaction.__init__(vin, vout, nLockTime, nVersion)
CMutableTransaction(vin, vout, locktime, version) ==
    [a \in AttrNames |->
        CASE a = "nLockTime" -> locktime
          [] a = "vin" -> IF vin = NoneV THEN InsV(<<>>) ELSE vin
          [] a = "vout" -> IF vout = NoneV THEN OutsV(<<>>) ELSE vout
          [] a = "nVersion" -> version
          [] OTHER -> Absent]

\* for k, v in kwfields.items(): setattr(self, k, v)
SetKwfields(attrs, kwfields) ==
    [a \in AttrNames |-> IF a \in DOMAIN kwfields THEN kwfields[a] ELSE attrs[a]]

RECURSIVE FillDefaultsOverwrite(_, _)
\* FillDefaults without the getattr test: every field is set to its default
FillDefaultsOverwrite(attrs, fields) ==
    IF fields = <<>> THEN attrs
    ELSE FillDefaultsOverwrite([attrs EXCEPT ![Head(fields).name] = Head(fields).default],
                               Tail(fields))

RECURSIVE FillDefaults(_, _)
\* for name, _, _, default in fields: set the default when the attribute is missing
FillDefaults(attrs, fields) ==
    IF fields = <<>> THEN attrs
    ELSE FillDefaults(IF attrs[Head(fields).name] = Absent
                      THEN [attrs EXCEPT ![Head(fields).name] = Head(fields).default]
                      ELSE attrs,
                      Tail(fields))

\* self.fields = fields, and the defaults of the fields the object lacks
Bound(attrs, fields) == [fields |-> fields, attrs |-> FillDefaults(attrs, fields)]

\* set_serialization taking the Bitcoin field list, not the active one, for None
set_serialization_stale(attrs, fields) ==
    Bound(attrs, IF fields = None THEN list(BitcoinPreset.tx_fields) ELSE fields[1])

\* Transaction.set_serialization(fields): the object afterwards
set_serialization(attrs, fields) ==
    Bound(attrs, IF fields = None THEN list(transaction_fields) ELSE fields[1])

\* Transaction.__init__(vin, vout, locktime, version, fields, kwfields)
Transaction(vin, vout, locktime, version, fields, kwfields) ==
    set_serialization(
        SetKwfields(CMutableTransaction(vin, vout, locktime, version), kwfields),
        fields)

\* the value of a field: the first item of the unpacked bytes b
Unpacked(fmt, b) ==
    IF b.err # "" THEN b ELSE Rd(unpack(fmt, b.val).err, unpack(fmt, b.val).val, b.pos)
\* the value of a field: the vector or the byte string v read
Wrapped(fmt, v) ==
    IF v.err # "" THEN v
    ELSE Rd("", IF fmt = "inputs" THEN InsV(v.val)
                ELSE IF fmt = "outputs" THEN OutsV(v.val) ELSE BytesV(v.val), v.pos)

\* ReadField decoding every integer as unsigned
ReadFieldUnsigned(f, data, pos0) ==
    IF f.fmt \notin {"inputs", "outputs", "bytes"}
    THEN Unpacked("<I", ser_read(data, pos0, f.num_bytes))
    ELSE IF f.fmt = "inputs" THEN Wrapped("inputs", VectorDeserialize("inputs", data, pos0))
    ELSE IF f.fmt = "outputs" THEN Wrapped("outputs", VectorDeserialize("outputs", data, pos0))
    ELSE Wrapped("bytes", ReadBytes(data, pos0))

\* one field read by stream_deserialize
ReadField(f, data, pos0) ==
    IF f.fmt \notin {"inputs", "outputs", "bytes"}
    THEN Unpacked(f.fmt, ser_read(data, pos0, f.num_bytes))
    ELSE IF f.fmt = "inputs" THEN Wrapped("inputs", VectorDeserialize("inputs", data, pos0))
    ELSE IF f.fmt = "outputs" THEN Wrapped("outputs", VectorDeserialize("outputs", data, pos0))
    ELSE Wrapped("bytes", ReadBytes(data, pos0))

\* what the loop of stream_deserialize has come to: the exception, the
\* attributes set so far, the position in the stream
Got(e, attrs, p) == [err |-> e, attrs |-> attrs, pos |-> p]

RECURSIVE ReadFieldsSwallow(_, _, _, _)
\* ReadFields giving up quietly at the first field that cannot be read
ReadFieldsSwallowStep(fields, attrs, data, r) ==
    IF r.err # "" THEN Got("", attrs, r.pos)
    ELSE ReadFieldsSwallow(Tail(fields), [attrs EXCEPT ![Head(fields).name] = r.val],
                           data, r.pos)
ReadFieldsSwallow(fields, attrs, data, pos0) ==
    IF fields = <<>> THEN Got("", attrs, pos0)
    ELSE ReadFieldsSwallowStep(fields, attrs, data, ReadField(Head(fields), data, pos0))

RECURSIVE ReadFields(_, _, _, _)
\* setattr(self, attr, value read), or the exception of the read
ReadFieldsStep(fields, attrs, data, r) ==
    IF r.err # "" THEN Got(r.err, attrs, r.pos)
    ELSE ReadFields(Tail(fields), [attrs EXCEPT ![Head(fields).name] = r.val], data, r.pos)
\* the loop of stream_deserialize over self.fields
ReadFields(fields, attrs, data, pos0) ==
    IF fields = <<>> THEN Got("", attrs, pos0)
    ELSE ReadFieldsStep(fields, attrs, data, ReadField(Head(fields), data, pos0))

\* what stream_deserialize comes to: the exception, the object, the position
Deserialized(self, r) ==
    [err |-> r.err, tx |-> [fields |-> self.fields, attrs |-> r.attrs], pos |-> r.pos]

\* the loop of stream_deserialize run on the new object self
DeserializeInto(self, data) ==
    Deserialized(self, ReadFields(self.fields, self.attrs, data, 0))

\* Transaction.stream_deserialize(f): the exception raised, or the object returned
stream_deserialize(data) ==
    DeserializeInto(Transaction(NoneV, NoneV, IntV(0), IntV(1), None, << >>), data)

\* one field written by stream_serialize
WriteField(f, attrs) ==
    IF f.fmt \notin {"inputs", "outputs", "bytes"}
    THEN IF attrs[f.name] = Absent THEN [err |-> "AttributeError", bytes |-> <<>>]
         ELSE pack(f.fmt, attrs[f.name])
    ELSE IF f.fmt = "inputs"
    THEN IF attrs["vin"].tag # "ins" THEN [err |-> "TypeError", bytes |-> <<>>]
         ELSE [err |-> "", bytes |-> VectorSerialize("inputs", attrs["vin"].ins)]
    ELSE IF f.fmt = "outputs"
    THEN IF attrs["vout"].tag # "outs" THEN [err |-> "TypeError", bytes |-> <<>>]
         ELSE [err |-> "", bytes |-> VectorSerialize("outputs", attrs["vout"].outs)]
    ELSE IF attrs[f.name] = Absent THEN [err |-> "AttributeError", bytes |-> <<>>]
    ELSE IF attrs[f.name].tag # "bytes" THEN [err |-> "TypeError", bytes |-> <<>>]
    ELSE [err |-> "", bytes |-> SerBytes(attrs[f.name].b)]

RECURSIVE WriteFields(_, _, _)
\* the loop of stream_serialize; acc is what the stream f holds so far
\* f.write(the bytes of one field), or the exception of writing it
WriteFieldsStep(fields, attrs, acc, w) ==
    IF w.err # "" THEN [err |-> w.err, bytes |-> acc]
    ELSE WriteFields(Tail(fields), attrs, acc \o w.bytes)
WriteFields(fields, attrs, acc) ==
    IF fields = <<>> THEN [err |-> "", bytes |-> acc]
    ELSE WriteFieldsStep(fields, attrs, acc, WriteField(Head(fields), attrs))

\* stream_serialize looping over the active field list, not over self.fields
stream_serialize_active(tx) == WriteFields(transaction_fields, tx.attrs, <<>>)

\* Transaction.stream_serialize(f): the exception raised and the bytes written to f
stream_serialize(tx) == WriteFields(tx.fields, tx.attrs, <<>>)

\* from_tx returning the object as it is
from_tx_asis(tx) == tx

\* from_tx binding the object to the active list as set_serialization() does
from_tx_rebound(tx) == set_serialization(tx.attrs, None)

\* Transaction.from_tx(tx) for a tx that is a Transaction: the same object, with
\* the attributes of the active fields it lacked
from_tx(tx) == [fields |-> tx.fields, attrs |-> FillDefaults(tx.attrs, transaction_fields)]

\* ---------------------------------------------------------------- registry
\* chainparams.set_tx_fields: the new transaction.transaction_fields
set_tx_fields(fields) == list(fields)

\* chainparams.set_block_header_fields: the new block.block_header_fields
set_block_header_fields(fields) == list(fields)

\* chainparams.set_block_fields: the new block.block_fields
set_block_fields(fields) == list(fields)

\* opcodes.set_overridden_opcodes: the table keeps exactly the entries given
set_overridden_opcodes(ops) == { ops[k] : k \in DOMAIN ops }

\* chainparams.set_opcode_overrides
set_opcode_overrides(ops) == set_overridden_opcodes(ops)

\* the module globals the registry sets
Registry(tf, bhf, bf, oo) ==
    [transaction_fields |-> tf, block_header_fields |-> bhf,
     block_fields |-> bf, overridden_opcodes |-> oo]

Reg == Registry(transaction_fields, block_header_fields, block_fields, overridden_opcodes)

\* set_to_preset without its call of set_block_fields
set_to_preset_no_block(name) ==
    IF name \notin DOMAIN presets THEN [err |-> "KeyError", reg |-> Reg]
    ELSE LET params == presets[name]
         IN  [err |-> "",
              reg |-> Registry(set_tx_fields(params.tx_fields),
                               set_block_header_fields(params.block_header_fields),
                               block_fields,
                               set_opcode_overrides(params.opcode_overrides))]

\* set_to_preset without its call of set_opcode_overrides
set_to_preset_no_opcodes(name) ==
    IF name \notin DOMAIN presets THEN [err |-> "KeyError", reg |-> Reg]
    ELSE LET params == presets[name]
         IN  [err |-> "",
              reg |-> Registry(set_tx_fields(params.tx_fields),
                               set_block_header_fields(params.block_header_fields),
                               set_block_fields(params.block_fields),
                               overridden_opcodes)]

\* set_to_preset taking the Bitcoin preset for a name it does not know
set_to_preset_default(name) ==
    LET params == IF name \in DOMAIN presets THEN presets[name] ELSE presets["Bitcoin"]
    IN  [err |-> "",
         reg |-> Registry(set_tx_fields(params.tx_fields),
                          set_block_header_fields(params.block_header_fields),
                          set_block_fields(params.block_fields),
                          set_opcode_overrides(params.opcode_overrides))]

\* chainparams.set_to_preset(name): the exception raised and the globals afterwards
set_to_preset(name) ==
    IF name \notin DOMAIN presets THEN [err |-> "KeyError", reg |-> Reg]
    ELSE LET params == presets[name]
         IN  [err |-> "",
              reg |-> Registry(set_tx_fields(params.tx_fields),
                               set_block_header_fields(params.block_header_fields),
                               set_block_fields(params.block_fields),
                               set_opcode_overrides(params.opcode_overrides))]

\* the handler that runs for an opcode value: the override when the table has
\* one, the base behaviour otherwise
OpcodeHandler(value) ==
    IF \E e \in overridden_opcodes : e.value = value
    THEN (CHOOSE e \in overridden_opcodes : e.value = value).func
    ELSE "base"

\* ------------------------------------------------------------------ inputs
\* a name that is no registered preset
UnknownName == "Dogecoin"

\* field lists a caller passes to set_tx_fields or to a Transaction
CustomA == BitcoinPreset.tx_fields \o << Field("Extra", "bytes", 2, BytesV(<< 1, 2 >>)) >>
CustomB == << Field("nVersion", "<i", 4, IntV(2)),
              Field("vin", "inputs", NoBytes, NoneV),
              Field("vout", "outputs", NoBytes, NoneV),
              Field("nLockTime", "<I", 4, IntV(9)),
              Field("Timestamp", "<i", 4, IntV(5)) >>
\* the Bitcoin layout with the inputs field under another name
CustomC == << Field("nVersion", "<i", 4, IntV(1)),
              Field("txins", "inputs", NoBytes, NoneV),
              Field("vout", "outputs", NoBytes, NoneV),
              Field("nLockTime", "<I", 4, IntV(0)) >>
CustomSchemas == { CustomA, CustomB, CustomC }

In1 == TxIn([k \in 1..32 |-> k], Num(1), << 81 >>, << 65535, 65535 >>)
Out1 == TxOut(<< 20480, 0, 0, 0 >>, << 118, 169 >>)

\* the constructor called with no argument: (vin, vout, locktime, version, kwfields)
DefaultArgs == << NoneV, NoneV, IntV(0), IntV(1), << >> >>

FullArgs == << InsV(<< In1 >>), OutsV(<< Out1 >>), IntV(500000), IntV(0 - 2), << >> >>
KwArgs == << NoneV, OutsV(<< Out1 >>), IntV(0), IntV(1), [Timestamp |-> IntV(7)] >>

\* what the constructor is called with: the arguments, and the field list
CtorCalls ==
    { << DefaultArgs, None >>, << FullArgs, None >>, << KwArgs, None >>,
      << DefaultArgs, Some(CustomA) >>, << DefaultArgs, Some(CustomB) >>,
      << KwArgs, Some(CustomB) >> }

\* values a caller assigns to a field of a Transaction
Assignments ==
    { << "nLockTime", IntN(<< 65535, 65535 >>) >>,
      << "nLockTime", IntV(0 - 1) >>,
      << "ClamSpeech", BytesV(<< 104, 105 >>) >> }

\* byte buffers a caller hands to stream_deserialize, besides what was serialized
FixedInputs ==
    { << 1, 0, 0, 0, 0, 0, 0, 0, 0, 0 >>,
      << 1, 0, 0, 0, 0, 0, 0, 0, 0, 0, 1, 2 >>,
      << 255, 255, 255, 255, 7, 0, 0, 0, 0, 0, 0, 0, 0, 128, 2, 104, 105 >>,
      << 1, 0, 0, 0, 0, 0, 0, 0, 0, 0, 254, 0, 0, 0, 3 >> }

\* the lengths at which a serialized buffer is cut before it is read back
Cuts(n) == { k \in {n - 1, n} : 0 <= k /\ k <= n }

\* the field lists a caller may hand over explicitly
ExplicitFields == { Some(f) : f \in CustomSchemas }

\* ----------------------------------------------------------------- actions
\* no script handed to the template functions
ScriptIdle ==
    /\ script = [parses |-> FALSE, tokens |-> << >>]
    /\ called = ""
    /\ item = << >>
    /\ verdict = << >>

\* no PluginHandler made
HandlerIdle == handler = << >>

\* no main window made
WindowIdle == window = << >>

\* no module global bound to any list
NoGlobals == [transaction_fields |-> 0, block_header_fields |-> 0, block_fields |-> 0]

Call(op, name, tx, arg, args, err) ==
    [op |-> op, name |-> name, tx |-> tx, arg |-> arg, args |-> args, err |-> err]

\* HashmalMain.__init__ applies the configured preset before anything else
Init ==
    \E name \in PresetNames :
        /\ transaction_fields = set_tx_fields(presets[name].tx_fields)
        /\ block_header_fields = set_block_header_fields(presets[name].block_header_fields)
        /\ block_fields = set_block_fields(presets[name].block_fields)
        /\ overridden_opcodes = set_opcode_overrides(presets[name].opcode_overrides)
        /\ txs = << >>
        /\ out = << >>
        /\ outOf = None
        /\ inp = << >>
        /\ pos = 0
        /\ last = Call("set_to_preset", name, 0, None, << >>, "")
        /\ applied = name
        /\ nops = 0
        /\ heap = << >>
        /\ globals = NoGlobals
        /\ tx_lists = << >>
        /\ ScriptIdle
        /\ HandlerIdle
        /\ WindowIdle

Step == nops < MaxOps /\ nops' = nops + 1 /\ UNCHANGED << listVars, scriptVars, handler, window >>

\* chainparams.set_to_preset(name)
SetToPresetDone(name, r) ==
    /\ Step
    /\ transaction_fields' = r.reg.transaction_fields
    /\ block_header_fields' = r.reg.block_header_fields
    /\ block_fields' = r.reg.block_fields
    /\ overridden_opcodes' = r.reg.overridden_opcodes
    /\ last' = Call("set_to_preset", name, 0, None, << >>, r.err)
    /\ applied' = IF name \in PresetNames THEN name ELSE applied
    /\ UNCHANGED << txs, ioVars >>

SetToPreset ==
    \E name \in PresetNames \cup { UnknownName } : SetToPresetDone(name, set_to_preset(name))

\* chainparams.set_tx_fields(fields)
SetTxFields ==
    \E fields \in CustomSchemas :
        /\ Step
        /\ transaction_fields' = set_tx_fields(fields)
        /\ last' = Call("set_tx_fields", "", 0, Some(fields), << >>, "")
        /\ UNCHANGED << block_header_fields, block_fields, overridden_opcodes,
                        txs, ioVars, applied >>

\* Transaction(vin, vout, locktime, version, fields, kwfields)
NewTransaction ==
    \E c \in CtorCalls :
        /\ Step
        /\ Len(txs) < MaxTx
        /\ txs' = Append(txs, Transaction(c[1][1], c[1][2], c[1][3], c[1][4], c[2], c[1][5]))
        /\ last' = Call("Transaction", "", Len(txs) + 1, c[2], c[1], "")
        /\ UNCHANGED << regVars, ioVars, applied >>

\* tx.set_serialization(fields)
SetSerialization ==
    \E t \in DOMAIN txs, fields \in { None } \cup ExplicitFields :
        /\ Step
        /\ txs' = [txs EXCEPT ![t] = set_serialization(txs[t].attrs, fields)]
        /\ last' = Call("set_serialization", "", t, fields, << >>, "")
        /\ UNCHANGED << regVars, ioVars, applied >>

\* tx.<name> = value
SetAttr ==
    \E t \in DOMAIN txs, a \in Assignments :
        /\ Step
        /\ txs' = [txs EXCEPT ![t].attrs[a[1]] = a[2]]
        /\ last' = Call("setattr", "", t, None, << >>, "")
        /\ UNCHANGED << regVars, ioVars, applied >>

\* Transaction.from_tx(tx)
FromTx ==
    \E t \in DOMAIN txs :
        /\ Step
        /\ txs' = [txs EXCEPT ![t] = from_tx(txs[t])]
        /\ last' = Call("from_tx", "", t, None, << >>, "")
        /\ UNCHANGED << regVars, ioVars, applied >>

\* tx.stream_serialize(f) into an empty stream f
SerializeDone(t, w) ==
    /\ Step
    /\ out' = w.bytes
    /\ outOf' = Some(txs[t])
    /\ last' = Call("stream_serialize", "", t, None, << >>, w.err)
    /\ UNCHANGED << regVars, txs, inp, pos, applied >>

Serialize ==
    \E t \in DOMAIN txs : SerializeDone(t, stream_serialize(txs[t]))

\* Transaction.stream_deserialize(f) on a stream holding the bytes data
DeserializeDone(data, r) ==
    /\ Step
    /\ Len(txs) < MaxTx
    /\ inp' = data
    /\ pos' = r.pos
    /\ txs' = IF r.err = "" THEN Append(txs, r.tx) ELSE txs
    /\ last' = Call("stream_deserialize", "", IF r.err = "" THEN Len(txs) + 1 ELSE 0,
                    None, << >>, r.err)
    /\ UNCHANGED << regVars, out, outOf, applied >>

Deserialize ==
    \E data \in { SubSeq(out, 1, k) : k \in Cuts(Len(out)) } \cup FixedInputs :
        DeserializeDone(data, stream_deserialize(data))

Next ==
    \/ SetToPreset
    \/ SetTxFields
    \/ NewTransaction
    \/ SetSerialization
    \/ SetAttr
    \/ FromTx
    \/ Serialize
    \/ Deserialize

Spec == Init /\ [][Next]_vars

\* ------------------------------------------------------------------ claims
PresetSchemas == { presets[n].tx_fields : n \in PresetNames }

TableOf(ops) == { ops[k] : k \in DOMAIN ops }

RECURSIVE Layout(_, _)
\* the wire layout of a field list: every field, in order, encoded from the
\* value held under its own name
Layout(fields, attrs) ==
    IF fields = <<>> THEN <<>>
    ELSE LET f == Head(fields)
             v == attrs[f.name]
         IN  (CASE f.fmt \in IntFormats -> LE4(v.i)
                [] f.fmt = "inputs" -> VectorSerialize("inputs", v.ins)
                [] f.fmt = "outputs" -> VectorSerialize("outputs", v.outs)
                [] OTHER -> SerBytes(v.b))
             \o Layout(Tail(fields), attrs)

\* C1: a set_to_preset or set_tx_fields call leaves the captured field list
\* of every existing Transaction, and the bytes it serializes to, as they were.
C1_SchemaIsolation ==
    [][ last'.op \in {"set_to_preset", "set_tx_fields"} =>
          \A t \in DOMAIN txs :
              /\ t \in DOMAIN txs'
              /\ txs'[t].fields = txs[t].fields
              /\ stream_serialize(txs[t])' = stream_serialize(txs[t]) ]_vars

C1_Witness ==
    /\ nops > 0
    /\ last.op = "set_to_preset"
    /\ last.err = ""
    /\ \E t \in DOMAIN txs :
          /\ txs[t].fields \in PresetSchemas
          /\ txs[t].fields # transaction_fields
          /\ stream_serialize(txs[t]).err = ""
          /\ Len(stream_serialize(txs[t]).bytes) > 10

\* C2: with a built-in preset active, a Transaction of that preset's field
\* list that serializes without error deserializes from those bytes to an
\* object holding the same value for every field of the list; and this is what
\* stream_deserialize returned when it was given the bytes stream_serialize wrote.
C2_RoundTrip ==
    /\ \A t \in DOMAIN txs :
          (/\ transaction_fields \in PresetSchemas
           /\ txs[t].fields = transaction_fields
           /\ stream_serialize(txs[t]).err = "")
          => LET w == stream_serialize(txs[t])
                 d == stream_deserialize(w.bytes)
             IN  /\ d.err = ""
                 /\ d.pos = Len(w.bytes)
                 /\ \A k \in DOMAIN txs[t].fields :
                       d.tx.attrs[txs[t].fields[k].name] = txs[t].attrs[txs[t].fields[k].name]
    /\ (/\ last.op = "stream_deserialize"
        /\ outOf # None
        /\ inp = out
        /\ transaction_fields \in PresetSchemas
        /\ outOf[1].fields = transaction_fields
        /\ stream_serialize(outOf[1]).err = "")
       => /\ last.tx # 0
          /\ \A k \in DOMAIN transaction_fields :
                txs[last.tx].attrs[transaction_fields[k].name]
                    = outOf[1].attrs[transaction_fields[k].name]

C2_Witness ==
    /\ last.op = "stream_deserialize"
    /\ last.tx # 0
    /\ outOf # None
    /\ inp = out
    /\ transaction_fields = ClamsPreset.tx_fields
    /\ outOf[1].fields = transaction_fields
    /\ outOf[1].attrs["vin"] = InsV(<< In1 >>)
    /\ outOf[1].attrs["nVersion"] = IntV(0 - 2)
    /\ txs[last.tx].attrs["nVersion"] = IntV(0 - 2)

\* C3: after set_to_preset(name) returned, the active transaction, block
\* header and block field lists and the opcode override table are those of the
\* preset registered under that one name.
C3_PresetApplied ==
    (last.op = "set_to_preset" /\ last.err = "")
    => /\ last.name \in PresetNames
       /\ transaction_fields = presets[last.name].tx_fields
       /\ block_header_fields = presets[last.name].block_header_fields
       /\ block_fields = presets[last.name].block_fields
       /\ overridden_opcodes = TableOf(presets[last.name].opcode_overrides)

C3_Witness ==
    /\ nops > 0
    /\ last.op = "set_to_preset"
    /\ last.err = ""
    /\ last.name = "Clams"
    /\ block_fields = ClamsPreset.block_fields
    /\ \E t \in DOMAIN txs : txs[t].fields \in PresetSchemas \ { ClamsPreset.tx_fields }

\* C4: set_to_preset with a name that is not registered raises KeyError and
\* leaves the four active items as they were.
C4_UnknownPreset ==
    [][ (last'.op = "set_to_preset" /\ last'.name \notin PresetNames)
        => (last'.err = "KeyError" /\ UNCHANGED regVars) ]_vars

C4_Witness ==
    /\ last.op = "set_to_preset"
    /\ last.name = UnknownName
    /\ last.err = "KeyError"
    /\ transaction_fields = ClamsPreset.tx_fields
    /\ overridden_opcodes # {}

\* C5: the active opcode override table is that of the last preset applied:
\* 0xb0 runs the CLTV handler while that preset is Clams and the base
\* behaviour otherwise.
C5_OverrideScoping ==
    /\ overridden_opcodes = TableOf(presets[applied].opcode_overrides)
    /\ OpcodeHandler(176) = IF applied = "Clams" THEN "clams_checklocktimeverify" ELSE "base"

C5_Witness ==
    /\ last.op = "set_to_preset"
    /\ last.err = ""
    /\ applied = "Bitcoin"
    /\ OpcodeHandler(176) = "base"
    /\ \E t \in DOMAIN txs : txs[t].fields = ClamsPreset.tx_fields

\* C6: set_tx_fields makes the list it is given the active one; a Transaction
\* created without a field list, by the constructor or by stream_deserialize,
\* captures the active list, and stream_deserialize reads the buffer as the
\* fields of that list in order; none of these calls changes an older object.
C6_ActiveSchemaCaptured ==
    [][ /\ (last'.op \in {"set_tx_fields", "set_to_preset"} => txs' = txs)
        /\ (last'.op = "set_tx_fields" => transaction_fields' = last'.arg[1])
        /\ ((/\ last'.op \in {"Transaction", "stream_deserialize"}
             /\ last'.arg = None
             /\ Len(txs') = Len(txs) + 1)
            => /\ txs'[Len(txs')].fields = transaction_fields
               /\ transaction_fields' = transaction_fields
               /\ \A t \in DOMAIN txs : txs'[t] = txs[t])
        /\ ((last'.op = "stream_deserialize" /\ Len(txs') = Len(txs) + 1)
            => Layout(transaction_fields, txs'[Len(txs')].attrs) = SubSeq(inp', 1, pos')) ]_vars

C6_Witness ==
    /\ last.op = "stream_deserialize"
    /\ last.tx = 2
    /\ transaction_fields = CustomB
    /\ txs[1].fields \in PresetSchemas
    /\ txs[2].fields = CustomB
    /\ txs[2].attrs["Timestamp"] = IntV(254)

\* the inputs field of the list is named vin and its outputs field vout
StandardNames(fields) ==
    \A k \in DOMAIN fields :
        /\ fields[k].fmt = "inputs" => fields[k].name = "vin"
        /\ fields[k].fmt = "outputs" => fields[k].name = "vout"

\* C7: set_serialization(fields) leaves every attribute the object had as it
\* was, gives every field it lacked the default the new list declares, and
\* makes the object serialize as the fields of the new list in order (the
\* inputs and outputs being those of vin and vout).
C7_Rebind ==
    [][ last'.op = "set_serialization" =>
          LET t == last'.tx
              new == IF last'.arg = None THEN transaction_fields ELSE last'.arg[1]
              w == stream_serialize(txs'[t])
          IN  /\ \A a \in AttrNames :
                    txs[t].attrs[a] # Absent => txs'[t].attrs[a] = txs[t].attrs[a]
              /\ \A k \in DOMAIN new :
                    txs[t].attrs[new[k].name] = Absent
                    => txs'[t].attrs[new[k].name] = new[k].default
              /\ txs'[t].fields = new
              /\ (w.err = "" /\ StandardNames(new))
                 => w.bytes = Layout(new, txs'[t].attrs) ]_vars

C7_Witness ==
    /\ last.op = "set_serialization"
    /\ last.arg = Some(CustomA)
    /\ txs[last.tx].attrs["Timestamp"] = IntV(7)
    /\ txs[last.tx].attrs["Extra"] = BytesV(<< 1, 2 >>)
    /\ stream_serialize(txs[last.tx]).err = ""

\* C8: a Transaction constructed without any explicit value holds, for every
\* field of its list, the default the list declares.
C8_DeclaredDefaults ==
    (last.op = "Transaction" /\ last.args = DefaultArgs)
    => \A k \in DOMAIN txs[last.tx].fields :
          txs[last.tx].attrs[txs[last.tx].fields[k].name] = txs[last.tx].fields[k].default

\* the buffer given is a cut of one that deserializes, shorter than what is read
Truncated ==
    \E full \in { out } \cup FixedInputs :
        /\ Len(inp) < Len(full)
        /\ inp = SubSeq(full, 1, Len(inp))
        /\ stream_deserialize(full).err = ""
        /\ Len(inp) < stream_deserialize(full).pos

\* C9: stream_deserialize given a truncated buffer raises
\* SerializationTruncationError, and whenever it raises it returns no object.
C9_Truncation ==
    last.op = "stream_deserialize"
    => /\ Truncated => last.err = "SerializationTruncationError"
       /\ last.err # "" => last.tx = 0
       /\ last.tx # 0 => (last.err = "" /\ pos <= Len(inp))

C9_Witness ==
    /\ last.op = "stream_deserialize"
    /\ Truncated
    /\ outOf # None
    /\ Len(out) > 10
    /\ inp = SubSeq(out, 1, Len(out) - 1)
    /\ last.err = "SerializationTruncationError"

RECURSIVE ClaimedLayout(_, _)
\* the layout in which a bytes field of specified length is written raw
ClaimedLayout(fields, attrs) ==
    IF fields = <<>> THEN <<>>
    ELSE LET f == Head(fields)
             v == attrs[f.name]
         IN  (CASE f.fmt \in IntFormats -> LE4(v.i)
                [] f.fmt = "inputs" -> VectorSerialize("inputs", v.ins)
                [] f.fmt = "outputs" -> VectorSerialize("outputs", v.outs)
                [] OTHER -> IF f.num_bytes # NoBytes THEN v.b ELSE SerBytes(v.b))
             \o ClaimedLayout(Tail(fields), attrs)

\* C10: a bytes field whose length is specified is written as its bytes alone
\* and read as exactly that many bytes; only one of unspecified length carries
\* a length prefix.
C10_SpecifiedLength ==
    /\ (last.op = "stream_serialize" /\ last.err = "")
       => out = ClaimedLayout(outOf[1].fields, outOf[1].attrs)
    /\ (last.op = "stream_deserialize" /\ last.tx # 0)
       => /\ SubSeq(inp, 1, pos) = ClaimedLayout(transaction_fields, txs[last.tx].attrs)
          /\ \A k \in DOMAIN transaction_fields :
                (transaction_fields[k].fmt = "bytes"
                 /\ transaction_fields[k].num_bytes # NoBytes)
                => Len(txs[last.tx].attrs[transaction_fields[k].name].b)
                       = transaction_fields[k].num_bytes

\* one field written from the value held under the field's own name, with the
\* encoding stream_deserialize reads into that name
MirrorField(f, attrs) ==
    IF attrs[f.name] = Absent THEN [err |-> "AttributeError", bytes |-> <<>>]
    ELSE IF f.fmt \notin {"inputs", "outputs", "bytes"} THEN pack(f.fmt, attrs[f.name])
    ELSE IF f.fmt = "inputs"
    THEN IF attrs[f.name].tag # "ins" THEN [err |-> "TypeError", bytes |-> <<>>]
         ELSE [err |-> "", bytes |-> VectorSerialize("inputs", attrs[f.name].ins)]
    ELSE IF f.fmt = "outputs"
    THEN IF attrs[f.name].tag # "outs" THEN [err |-> "TypeError", bytes |-> <<>>]
         ELSE [err |-> "", bytes |-> VectorSerialize("outputs", attrs[f.name].outs)]
    ELSE IF attrs[f.name].tag # "bytes" THEN [err |-> "TypeError", bytes |-> <<>>]
    ELSE [err |-> "", bytes |-> SerBytes(attrs[f.name].b)]

RECURSIVE Mirror(_, _, _)
\* the fields of a list written in order, each by MirrorField
MirrorStep(fields, attrs, acc, w) ==
    IF w.err # "" THEN [err |-> w.err, bytes |-> acc]
    ELSE Mirror(Tail(fields), attrs, acc \o w.bytes)
Mirror(fields, attrs, acc) ==
    IF fields = <<>> THEN [err |-> "", bytes |-> acc]
    ELSE MirrorStep(fields, attrs, acc, MirrorField(Head(fields), attrs))

\* C11: stream_serialize writes, for every field of the object's list in
\* order, the value held under that field's name in the encoding
\* stream_deserialize reads into that name, whatever the field is named; so an
\* object stream_deserialize returned serializes to the bytes it was read from.
C11_Mirror ==
    /\ last.op = "stream_serialize"
       => /\ last.err = Mirror(outOf[1].fields, outOf[1].attrs, <<>>).err
          /\ out = Mirror(outOf[1].fields, outOf[1].attrs, <<>>).bytes
    /\ (last.op = "stream_deserialize" /\ last.tx # 0)
       => stream_serialize(txs[last.tx]).bytes = SubSeq(inp, 1, pos)


\* the 10 bytes 01000000 00 00 00000000
TenBytes == << 1, 0, 0, 0, 0, 0, 0, 0, 0, 0 >>

\* the Bitcoin wire layout of an object: version, count and inputs, count and
\* outputs, locktime, and nothing else
BitcoinLayout(attrs) ==
    LE4(attrs["nVersion"].i) \o VectorSerialize("inputs", attrs["vin"].ins)
    \o VectorSerialize("outputs", attrs["vout"].outs) \o LE4(attrs["nLockTime"].i)

\* C12: with the Bitcoin field list active, what stream_deserialize read is
\* the Bitcoin layout of the object it returned, the version being signed and
\* the locktime unsigned; an object of that list serializes to that layout;
\* and the 10 bytes 01000000 00 00 00000000 give nVersion 1, no inputs, no
\* outputs, nLockTime 0, and serialize back to the same 10 bytes.
C12_BitcoinLayout ==
    /\ (/\ last.op = "stream_deserialize"
        /\ last.tx # 0
        /\ transaction_fields = BitcoinPreset.tx_fields)
       => /\ SubSeq(inp, 1, pos) = BitcoinLayout(txs[last.tx].attrs)
          /\ txs[last.tx].attrs["nVersion"].i[1] \in (0 - 32768)..32767
          /\ txs[last.tx].attrs["nLockTime"].i[1] \in 0..65535
    /\ (/\ last.op = "stream_serialize"
        /\ last.err = ""
        /\ outOf[1].fields = BitcoinPreset.tx_fields)
       => out = BitcoinLayout(outOf[1].attrs)
    /\ (/\ last.op = "stream_deserialize"
        /\ inp = TenBytes
        /\ transaction_fields = BitcoinPreset.tx_fields)
       => /\ last.err = ""
          /\ last.tx # 0
          /\ pos = 10
          /\ txs[last.tx].attrs["nVersion"] = IntV(1)
          /\ txs[last.tx].attrs["vin"] = InsV(<<>>)
          /\ txs[last.tx].attrs["vout"] = OutsV(<<>>)
          /\ txs[last.tx].attrs["nLockTime"] = IntV(0)
          /\ stream_serialize(txs[last.tx]) = [err |-> "", bytes |-> TenBytes]

C12_Witness ==
    /\ last.op = "stream_deserialize"
    /\ inp = TenBytes
    /\ transaction_fields = BitcoinPreset.tx_fields
    /\ last.tx # 0
    /\ stream_serialize(txs[last.tx]).bytes = TenBytes


\* ------------------------------------------------ the lists by identity
\* Python lists are objects: two names may be bound to one list, and a change
\* made in place through one name shows through the other.  heap[r] holds the
\* items of the list object r; a name holds a reference r.
MaxListOps == 3     \* number of operations performed in one run

\* a new list object holding the items given: the heap, and the reference
Made(h, items) == [heap |-> Append(h, items), ref |-> Len(h) + 1]

\* binding a name to the list itself
ListShare(h, ref) == [heap |-> h, ref |-> ref]

\* list(x) for the list object x at ref: a new list object with the same items
ListCopy(h, ref) == Made(h, h[ref])

\* _bitcoin_header_fields and _bitcoin_block_fields, the first lists made
ModuleLists == << _bitcoin_header_fields, _bitcoin_block_fields >>

\* the keyword argument block_fields of ParamsPreset(...): a list made by the
\* caller when given, list(_bitcoin_block_fields) made by __init__ when not
BlockFieldsList(h, p) ==
    IF p.block_fields = _bitcoin_block_fields THEN ListCopy(h, 2) ELSE Made(h, p.block_fields)

\* the lists of a preset, once its three lists are made
PresetMade(im, a, b, c) ==
    [heap |-> c.heap,
     lists |-> Append(im.lists, [tx_fields |-> a.ref, block_header_fields |-> b.ref,
                                 block_fields |-> c.ref])]
PresetHeaderMade(im, p, a, b) == PresetMade(im, a, b, BlockFieldsList(b.heap, p))
PresetTxMade(im, p, a) == PresetHeaderMade(im, p, a, ListCopy(a.heap, 1))

\* ParamsPreset(name=..., tx_fields=[...], ...): the list literal of tx_fields,
\* list(_bitcoin_header_fields), and the block fields
NewPreset(im, p) == PresetTxMade(im, p, Made(im.heap, p.tx_fields))

\* the list objects that exist once chainparams is imported, and the lists
\* each preset of presets_list holds
Imported ==
    NewPreset(NewPreset(NewPreset(NewPreset([heap |-> ModuleLists, lists |-> << >>],
        presets_list[1]), presets_list[2]), presets_list[3]), presets_list[4])

PresetLists == Imported.lists

\* the place in presets_list of the preset of a name
PresetIndex(name) == CHOOSE k \in DOMAIN presets_list : presets_list[k].name = name

\* the heap and the module globals
Mem(h, g) == [heap |-> h, globals |-> g]

\* the global bound to the list c
Rebound(g, which, c) == Mem(c.heap, [g EXCEPT ![which] = c.ref])

\* SetFieldsList binding the global to the list handed over, not to a copy
SetFieldsShared(m, which, ref) == Rebound(m.globals, which, ListShare(m.heap, ref))

\* set_tx_fields / set_block_header_fields / set_block_fields for the list
\* object at ref: the global is bound to list(fields)
SetFieldsList(m, which, ref) == Rebound(m.globals, which, ListCopy(m.heap, ref))

\* chainparams.set_to_preset for the preset at place k of presets_list
SetPresetLists(m, k) ==
    SetFieldsList(
        SetFieldsList(
            SetFieldsList(m, "transaction_fields", PresetLists[k].tx_fields),
            "block_header_fields", PresetLists[k].block_header_fields),
        "block_fields", PresetLists[k].block_fields)

\* the list literal a caller writes for each kind of field list
Literal(which) ==
    CASE which = "transaction_fields" -> CustomA
      [] which = "block_header_fields" -> SubSeq(_bitcoin_header_fields, 1, 5)
      [] OTHER -> _bitcoin_block_fields \o << Field("blockSig", "bytes", NoBytes, NoneV) >>

\* where the list a caller hands over comes from: a literal, the get_ function
\* of chainparams, or a preset of chainparams.presets
Sources == { "literal", "active", "Clams" }

\* the preset attribute that holds the list of each kind
PresetAttr(which) ==
    CASE which = "transaction_fields" -> "tx_fields"
      [] which = "block_header_fields" -> "block_header_fields"
      [] OTHER -> "block_fields"

\* the list a caller hands over
Given(h, g, which, from) ==
    CASE from = "literal" -> Made(h, Literal(which))
      [] from = "active" -> ListShare(h, g[which])
      [] OTHER -> ListShare(h, PresetLists[PresetIndex(from)][PresetAttr(which)])

\* set_serialization(fields): self.fields is list(transaction_fields) for
\* None, and the list handed over otherwise
FieldsBound(h, g, fields) ==
    IF fields = None THEN ListCopy(h, g["transaction_fields"])
    ELSE Given(h, g, "transaction_fields", fields[1])

\* changes made in place to a list
Edits == { "append", "delete" }
Edited(items, edit) ==
    IF edit = "append" THEN Append(items, Field("Extra", "bytes", NoBytes, BytesV(<<>>)))
    ELSE IF items = << >> THEN items ELSE Tail(items)

ListsInitTo(name, m) ==
    /\ heap = m.heap
    /\ globals = m.globals
    /\ tx_lists = << >>
    /\ last = Call("set_to_preset", name, 0, None, << >>, "")
    /\ nops = 0
    /\ transaction_fields = << >>
    /\ block_header_fields = << >>
    /\ block_fields = << >>
    /\ overridden_opcodes = {}
    /\ txs = << >>
    /\ out = << >>
    /\ outOf = None
    /\ inp = << >>
    /\ pos = 0
    /\ applied = name
    /\ ScriptIdle
    /\ HandlerIdle
    /\ WindowIdle

\* the module imported, and the configured preset applied by HashmalMain.__init__
ListsInit ==
    \E name \in PresetNames :
        ListsInitTo(name, SetPresetLists(Mem(Imported.heap, NoGlobals), PresetIndex(name)))

ListStep ==
    nops < MaxListOps /\ nops' = nops + 1 /\ UNCHANGED << codecVars, scriptVars, handler, window >>

LSetToPresetDone(name, m) ==
    /\ ListStep
    /\ heap' = m.heap
    /\ globals' = m.globals
    /\ last' = Call("set_to_preset", name, 0, None, << >>,
                    IF name \in DOMAIN presets THEN "" ELSE "KeyError")
    /\ UNCHANGED tx_lists

\* chainparams.set_to_preset(name)
LSetToPreset ==
    \E name \in PresetNames \cup { UnknownName } :
        LSetToPresetDone(name, IF name \in DOMAIN presets
                               THEN SetPresetLists(Mem(heap, globals), PresetIndex(name))
                               ELSE Mem(heap, globals))

LSetFieldsDone(op, m) ==
    /\ ListStep
    /\ heap' = m.heap
    /\ globals' = m.globals
    /\ last' = Call(op, "", 0, None, << >>, "")
    /\ UNCHANGED tx_lists

LSetFieldsGiven(op, which, c) ==
    LSetFieldsDone(op, SetFieldsList(Mem(c.heap, globals), which, c.ref))

\* chainparams.set_tx_fields(fields)
LSetTxFields ==
    \E from \in Sources :
        LSetFieldsGiven("set_tx_fields", "transaction_fields",
                        Given(heap, globals, "transaction_fields", from))

\* chainparams.set_block_header_fields(fields)
LSetBlockHeaderFields ==
    \E from \in Sources :
        LSetFieldsGiven("set_block_header_fields", "block_header_fields",
                        Given(heap, globals, "block_header_fields", from))

\* chainparams.set_block_fields(fields)
LSetBlockFields ==
    \E from \in Sources :
        LSetFieldsGiven("set_block_fields", "block_fields",
                        Given(heap, globals, "block_fields", from))

LNewTransactionDone(op, c) ==
    /\ ListStep
    /\ Len(tx_lists) < MaxTx
    /\ heap' = c.heap
    /\ tx_lists' = Append(tx_lists, c.ref)
    /\ last' = Call(op, "", Len(tx_lists) + 1, None, << >>, "")
    /\ UNCHANGED globals

\* Transaction(fields=...)
LNewTransaction ==
    \E fields \in { None } \cup { Some(from) : from \in Sources } :
        LNewTransactionDone("Transaction", FieldsBound(heap, globals, fields))

\* Transaction.stream_deserialize(f): self = cls()
LDeserialize ==
    LNewTransactionDone("stream_deserialize", FieldsBound(heap, globals, None))

LSetSerializationDone(t, c) ==
    /\ ListStep
    /\ heap' = c.heap
    /\ tx_lists' = [tx_lists EXCEPT ![t] = c.ref]
    /\ last' = Call("set_serialization", "", t, None, << >>, "")
    /\ UNCHANGED globals

\* tx.set_serialization(fields)
LSetSerialization ==
    \E t \in DOMAIN tx_lists, fields \in { None } \cup { Some(from) : from \in Sources } :
        LSetSerializationDone(t, FieldsBound(heap, globals, fields))

\* Transaction.from_tx(tx): attributes are set on tx, no list is made or bound
LFromTx ==
    \E t \in DOMAIN tx_lists :
        /\ ListStep
        /\ last' = Call("from_tx", "", t, None, << >>, "")
        /\ UNCHANGED listVars

\* a caller changing in place the list get_tx_fields() returned
LMutate ==
    \E edit \in Edits :
        /\ ListStep
        /\ heap' = [heap EXCEPT ![globals["transaction_fields"]] = Edited(@, edit)]
        /\ last' = Call("mutate", edit, 0, None, << >>, "")
        /\ UNCHANGED << globals, tx_lists >>

ListsNext ==
    \/ LSetToPreset
    \/ LSetTxFields
    \/ LSetBlockHeaderFields
    \/ LSetBlockFields
    \/ LNewTransaction
    \/ LDeserialize
    \/ LSetSerialization
    \/ LFromTx
    \/ LMutate

SpecLists == ListsInit /\ [][ListsNext]_vars

\* the lists a preset holds
ListsOf(k) ==
    { PresetLists[k].tx_fields, PresetLists[k].block_header_fields, PresetLists[k].block_fields }

\* C13: whatever is called, and whatever is changed in place in the list
\* get_tx_fields() returns, the tx_fields, block_header_fields and block_fields
\* of every built-in preset hold the items they were defined with; and no list
\* of a preset is a list of another preset.
C13_PresetsImmutable ==
    /\ \A k \in DOMAIN presets_list :
          /\ heap[PresetLists[k].tx_fields] = presets_list[k].tx_fields
          /\ heap[PresetLists[k].block_header_fields] = presets_list[k].block_header_fields
          /\ heap[PresetLists[k].block_fields] = presets_list[k].block_fields
          /\ Cardinality(ListsOf(k)) = 3
    /\ \A j, k \in DOMAIN presets_list : j # k => ListsOf(j) \cap ListsOf(k) = {}

C13_Witness ==
    /\ last.op = "mutate"
    /\ heap[globals["transaction_fields"]] # presets[applied].tx_fields
    /\ \E k \in DOMAIN presets_list :
          Len(heap[globals["transaction_fields"]]) > Len(presets_list[k].tx_fields)
    /\ \E t \in DOMAIN tx_lists : tx_lists[t] = PresetLists[2].tx_fields


\* the field names an object holds: the attributes set on it
Held(tx) == { a \in AttrNames : tx.attrs[a] # Absent }

\* the names of a field list
NamesOf(fields) == { fields[k].name : k \in DOMAIN fields }

\* C14 as stated: set_serialization, from_tx, set_tx_fields and set_to_preset
\* leave the set of field names of every existing Transaction as it was.
C14_NamesFixed ==
    [][ last'.op \in {"set_serialization", "from_tx", "set_tx_fields", "set_to_preset"}
        => \A t \in DOMAIN txs :
              /\ Held(txs'[t]) = Held(txs[t])
              /\ NamesOf(txs'[t].fields) = NamesOf(txs[t].fields) ]_vars

\* C14 amended: set_tx_fields and set_to_preset leave every Transaction as it
\* was; set_serialization and from_tx never take a field name from an object
\* but add to the one they are called on the names of the list given (of the
\* active list for from_tx and for no list given) that it lacked, and only
\* set_serialization changes the names of the object's own list.
C14_NamesGrow ==
    [][ /\ last'.op \in {"set_tx_fields", "set_to_preset"} => txs' = txs
        /\ last'.op \in {"set_serialization", "from_tx"}
           => /\ DOMAIN txs' = DOMAIN txs
              /\ \A t \in DOMAIN txs : t # last'.tx => txs'[t] = txs[t]
              /\ Held(txs[last'.tx]) \subseteq Held(txs'[last'.tx])
        /\ last'.op = "from_tx"
           => /\ Held(txs'[last'.tx]) = Held(txs[last'.tx]) \cup NamesOf(transaction_fields)
              /\ txs'[last'.tx].fields = txs[last'.tx].fields
        /\ last'.op = "set_serialization"
           => /\ Held(txs'[last'.tx])
                   = Held(txs[last'.tx]) \cup NamesOf(txs'[last'.tx].fields)
              /\ txs'[last'.tx].fields
                   = IF last'.arg = None THEN transaction_fields ELSE last'.arg[1] ]_vars

C14_Witness ==
    /\ last.op = "from_tx"
    /\ txs[last.tx].fields = BitcoinPreset.tx_fields
    /\ transaction_fields = FreicoinPreset.tx_fields
    /\ Held(txs[last.tx]) = NamesOf(BitcoinPreset.tx_fields) \cup { "RefHeight" }


\* -------------------------------------------------------- script templates
MaxScriptLen == 5   \* number of tokens of a script

\* A token of a script in human-readable form: an opcode name, or a push
\* written as 0x and the hex digits given.
Op(name) == [op |-> name, hex |-> << >>]
Push(digits) == [op |-> "", hex |-> digits]

\* A word of a template text: a token written out, or <variable>.
Lit(name) == [var |-> "", tok |-> Op(name)]
Var(name) == [var |-> name, tok |-> Op("")]

\* the names of the variables of the templates
VarNames == { "recipient", "text" }

\* ScriptTemplate = namedtuple('ScriptTemplate', ('name', 'text', 'variables'));
\* text is kept split into its words, variables as the pairs (name, type)
ScriptTemplate(name, text, variables) == [name |-> name, text |-> text, variables |-> variables]

known_templates ==
    << ScriptTemplate("Pay-To-Public-Key-Hash Output",
                      << Lit("OP_DUP"), Lit("OP_HASH160"), Var("recipient"),
                         Lit("OP_EQUALVERIFY"), Lit("OP_CHECKSIG") >>,
                      { << "recipient", "address" >> }),
       ScriptTemplate("Pay-To-Script-Hash Output",
                      << Lit("OP_HASH160"), Var("recipient"), Lit("OP_EQUAL") >>,
                      { << "recipient", "address" >> }),
       ScriptTemplate("Null Output",
                      << Lit("OP_RETURN"), Var("text") >>,
                      { << "text", "text" >> }) >>

\* template.variables.keys()
Keys(variables) == { v[1] : v \in variables }

\* template.variables[k]
TypeOf(variables, k) == (CHOOSE v \in variables : v[1] = k)[2]

\* utils.is_hex(x)
is_hex(x) == x.op = ""

\* utils.format_hex_string(x, with_prefix=False): None for what is not hex,
\* and the digits, made even in number by a leading 0, without the 0x
format_hex_string(x) ==
    IF ~is_hex(x) THEN None
    ELSE IF Len(x.hex) % 2 = 1 THEN Some(<< 0 >> \o x.hex) ELSE Some(x.hex)

\* the answer of a function, or the exception it raised
Ret(e, v) == [err |-> e, val |-> v]

\* is_valid_variable_value accepting the digits with their 0x prefix counted
is_valid_variable_value_prefixed(value, variable_type) ==
    IF variable_type # "address" THEN Ret("", FALSE)
    ELSE IF format_hex_string(value) = None THEN Ret("TypeError", FALSE)
    ELSE Ret("", Len(format_hex_string(value)[1]) = 42)

\* is_valid_variable_value(value, variable_type); len(None) raises TypeError
is_valid_variable_value(value, variable_type) ==
    IF variable_type # "address" THEN Ret("", FALSE)
    ELSE IF format_hex_string(value) = None THEN Ret("TypeError", FALSE)
    ELSE Ret("", Len(format_hex_string(value)[1]) = 40)

\* how the loop of is_template_script ends: by return False, or by break with
\* the variables used
Ended(how, used) == [how |-> how, used |-> used]

RECURSIVE MatchLoop(_, _, _, _)
\* the body of the loop for the token s and the word txt
MatchStep(tokens, template, index, used, s, txt) ==
    IF txt.var # ""
    THEN IF txt.var \notin Keys(template.variables) THEN Ended("return", used)
         ELSE IF is_valid_variable_value(s, TypeOf(template.variables, txt.var)).err # ""
         THEN Ended("return", used)
         ELSE IF ~is_valid_variable_value(s, TypeOf(template.variables, txt.var)).val
         THEN Ended("return", used)
         ELSE MatchLoop(tokens, template, index + 1, used \cup { txt.var })
    ELSE IF s # txt.tok THEN Ended("return", used)
    ELSE MatchLoop(tokens, template, index + 1, used)
\* the loop of is_template_script: next(iterator) raises StopIteration at the
\* end of the script, text[index] raises IndexError past the end of the text
MatchLoop(tokens, template, index, used) ==
    IF index >= Len(tokens) THEN Ended("break", used)
    ELSE IF index >= Len(template.text) THEN Ended("return", used)
    ELSE MatchStep(tokens, template, index, used, tokens[index + 1], template.text[index + 1])

\* the end of is_template_script: False when the loop returned it or when a
\* variable of the template was not used
MatchEnd(template, e) ==
    IF e.how = "return" THEN FALSE ELSE Keys(template.variables) \subseteq e.used

\* is_template_script(script, template), script.human_iter() giving the tokens
is_template_script(tokens, template) ==
    MatchEnd(template, MatchLoop(tokens, template, 0, {}))

RECURSIVE ItemVariables(_, _, _, _)
\* the loop of ScriptTemplateItem.__init__: variables[name] = s for every
\* <name> met, until the script or the text ends
ItemVariables(tokens, text, index, variables) ==
    IF index >= Len(tokens) \/ index >= Len(text) THEN variables
    ELSE ItemVariables(tokens, text, index + 1,
                       IF text[index + 1].var # ""
                       THEN [variables EXCEPT ![text[index + 1].var] = Some(tokens[index + 1])]
                       ELSE variables)

\* ScriptTemplateItem(value, template)
ScriptTemplateItem(value, template) ==
    [value |-> value, template |-> template,
     variables |-> ItemVariables(value, template.text, 0, [n \in VarNames |-> None])]

\* ScriptTemplateItem.recipient(): self.variables.get('recipient')
recipient(it) == it.variables["recipient"]

RECURSIVE FirstTemplate(_, _)
\* for i in known_templates: if is_template_script(data, i): return cls(data, i)
FirstTemplate(tokens, i) ==
    IF i > Len(known_templates) THEN None
    ELSE IF is_template_script(tokens, known_templates[i])
    THEN Some(ScriptTemplateItem(tokens, known_templates[i]))
    ELSE FirstTemplate(tokens, i + 1)

\* ScriptTemplateItem.coerce_item(data): None when data cannot be read as a
\* script or matches no known template
coerce_item(d) == IF ~d.parses THEN None ELSE FirstTemplate(d.tokens, 1)

\* the hex digits of pushes of 20, 20 and 19 bytes
HexA == [k \in 1..40 |-> 10]
HexB == [k \in 1..40 |-> k % 16]
HexShort == [k \in 1..38 |-> 11]

\* the tokens scripts are made of
Tokens == { Op("OP_DUP"), Op("OP_HASH160"), Op("OP_EQUALVERIFY"), Op("OP_CHECKSIG"),
            Op("OP_EQUAL"), Push(HexA), Push(HexB), Push(HexShort) }

\* what is handed to the functions: a script, or a text that is no script
Scripts ==
    { [parses |-> TRUE, tokens |-> t] : t \in UNION { [1..n -> Tokens] : n \in 0..MaxScriptLen } }
    \cup { [parses |-> FALSE, tokens |-> << >>] }

\* no Transaction, registry or stream in use
CodecIdle ==
    /\ transaction_fields = << >>
    /\ block_header_fields = << >>
    /\ block_fields = << >>
    /\ overridden_opcodes = {}
    /\ txs = << >>
    /\ out = << >>
    /\ outOf = None
    /\ inp = << >>
    /\ pos = 0
    /\ applied = ""
    /\ last = Call("", "", 0, None, << >>, "")
    /\ nops = 0

\* no list tracked by identity
ListsIdle ==
    /\ heap = << >>
    /\ globals = NoGlobals
    /\ tx_lists = << >>

ScriptInit ==
    /\ script \in Scripts
    /\ called = ""
    /\ item = None
    /\ verdict = None
    /\ HandlerIdle
    /\ WindowIdle
    /\ CodecIdle
    /\ ListsIdle

\* ScriptTemplateItem.coerce_item(data)
CoerceItem ==
    /\ called = ""
    /\ called' = "coerce_item"
    /\ item' = coerce_item(script)
    /\ UNCHANGED << script, verdict, codecVars, listVars, last, nops, handler, window >>

\* is_template_script(script, template)
IsTemplateScript ==
    \E i \in DOMAIN known_templates :
        /\ called = ""
        /\ script.parses
        /\ called' = "is_template_script"
        /\ verdict' = Some([template |-> i,
                            result |-> is_template_script(script.tokens, known_templates[i])])
        /\ UNCHANGED << script, item, codecVars, listVars, last, nops, handler, window >>

ScriptNext ==
    \/ CoerceItem
    \/ IsTemplateScript

SpecScript == ScriptInit /\ [][ScriptNext]_vars

\* OP_DUP OP_HASH160 <20-byte push> OP_EQUALVERIFY OP_CHECKSIG
IsP2PKH(tokens) ==
    /\ Len(tokens) = 5
    /\ tokens[1] = Op("OP_DUP")
    /\ tokens[2] = Op("OP_HASH160")
    /\ tokens[3].op = ""
    /\ Len(tokens[3].hex) = 40
    /\ tokens[4] = Op("OP_EQUALVERIFY")
    /\ tokens[5] = Op("OP_CHECKSIG")

\* C15: coerce_item given a script OP_DUP OP_HASH160 <20-byte push>
\* OP_EQUALVERIFY OP_CHECKSIG returns an item of the Pay-To-Public-Key-Hash
\* template, the first of known_templates, whose recipient is the push token.
C15_P2PKH ==
    (called = "coerce_item" /\ script.parses /\ IsP2PKH(script.tokens))
    => /\ item # None
       /\ item[1].template = known_templates[1]
       /\ item[1].template.name = "Pay-To-Public-Key-Hash Output"
       /\ recipient(item[1]) = Some(script.tokens[3])

C15_Witness ==
    /\ called = "coerce_item"
    /\ IsP2PKH(script.tokens)
    /\ script.tokens[3] = Push(HexB)
    /\ item # None

\* the script complies with the template: as many tokens as the text has
\* words, every literal word equal to its token, every variable given a value
\* valid for its type, and every variable of the template given a value
Complies(tokens, template) ==
    /\ Len(tokens) = Len(template.text)
    /\ \A k \in DOMAIN template.text :
          IF template.text[k].var = "" THEN tokens[k] = template.text[k].tok
          ELSE /\ template.text[k].var \in Keys(template.variables)
               /\ is_valid_variable_value(tokens[k],
                      TypeOf(template.variables, template.text[k].var)) = Ret("", TRUE)
    /\ \A v \in Keys(template.variables) :
          \E k \in DOMAIN template.text : template.text[k].var = v

\* C16: is_template_script returns True exactly for the scripts that comply
\* with the template; a strict prefix of the template, or a longer script, is
\* rejected.
C16_TemplateMatch ==
    (called = "is_template_script")
    => verdict[1].result = Complies(script.tokens, known_templates[verdict[1].template])


\* ----------------------------------------------------------- plugin handler
MaxPluginOps == 3   \* number of operations performed in one run

\* gui_utils.required_plugins
required_plugins == { "Variables" }

\* the plugins of the entry points, in their order
PluginNames == << "Variables", "Blockchain", "Wallet RPC" >>
Plugins == { PluginNames[k] : k \in DOMAIN PluginNames }

\* plugin.ui.__class__.__name__
UiClass(p) ==
    CASE p = "Variables" -> "Variables"
      [] p = "Blockchain" -> "Blockchain"
      [] OTHER -> "WalletRPC"

\* plugin.augmenters(): the hook names the plugin has an augmenter for
augmenters(p) == IF p \in { "Blockchain", "Wallet RPC" } THEN { "raw_tx" } ELSE {}

\* plugin.has_gui
has_gui(p) == p # "Wallet RPC"

\* the arguments of a do_augment_hook call; callback "" is None
Request(class_name, hook_name, data, callback) ==
    [class_name |-> class_name, hook_name |-> hook_name, data |-> data, callback |-> callback]

Requests == { Request("TxBuilder", "raw_tx", "d1", "cb1"),
              Request("TxBuilder", "raw_tx", "d2", ""),
              Request("Blockchain", "raw_tx", "d3", "cb3") }

\* Augmentation(augmenter_plugin, hook_name, requester, data, callback)
Augmentation(plugin, req) ==
    [augmenter_plugin |-> plugin, hook_name |-> req.hook_name, requester |-> req.class_name,
     data |-> req.data, callback |-> req.callback, has_run |-> FALSE, is_enabled |-> TRUE]

\* an entry of the log of what was invoked: do_augment_hook past its first
\* test ("hook"), an augmenter function ("augmenter", raised or not), a
\* callback ("callback")
Invoked(kind, plugin, hook_name, data, callback, raised) ==
    [kind |-> kind, plugin |-> plugin, hook_name |-> hook_name, data |-> data,
     callback |-> callback, raised |-> raised]

\* PluginHandler.__init__, the docks not yet made, and the config with its
\* enabled_plugins option
PluginHandler(enabled) ==
    [loaded_plugins |-> << >>,
     plugins_loaded |-> FALSE,
     waiting_augmentations |-> << >>,
     augmentations |-> << >>,
     enabled_plugins |-> enabled,
     is_enabled |-> [p \in Plugins |-> FALSE],
     signals |-> [p \in Plugins |-> FALSE],
     visible |-> [p \in Plugins |-> FALSE],
     toggles |-> [p \in Plugins |-> FALSE],
     calls |-> << >>,
     disabled |-> {},
     exited |-> FALSE,
     err |-> ""]

\* the items of a list
Items(l) == { l[k] : k \in DOMAIN l }

\* Augmentations.get(plugin_name, hook_name): the place of the first one, 0 for None
Get(augs, plugin_name, hook_name) ==
    IF \E k \in DOMAIN augs : augs[k].augmenter_plugin = plugin_name
                              /\ augs[k].hook_name = hook_name
    THEN CHOOSE k \in DOMAIN augs :
            /\ augs[k].augmenter_plugin = plugin_name
            /\ augs[k].hook_name = hook_name
            /\ \A j \in 1..(k - 1) : ~(augs[j].augmenter_plugin = plugin_name
                                        /\ augs[j].hook_name = hook_name)
    ELSE 0

\* what do_augment logs when the augmenter returns: its call, and the call of
\* the callback if there is one, which raises or not
Augmented(a, raised) ==
    << Invoked("augmenter", a.augmenter_plugin, a.hook_name, a.data, a.callback, FALSE) >>
    \o (IF a.callback # ""
        THEN << Invoked("callback", a.augmenter_plugin, a.hook_name, a.data, a.callback, raised) >>
        ELSE << >>)

\* do_augment, lines 266-270, for the Augmentation a at place k; the augmenters
\* and the callbacks named in bad raise an exception
Run(s, k, a, bad) ==
    IF a.augmenter_plugin \in bad
    THEN [s EXCEPT !.calls = Append(@, Invoked("augmenter", a.augmenter_plugin, a.hook_name,
                                               a.data, a.callback, TRUE)),
                   !.err = "Exception"]
    ELSE IF a.callback # "" /\ a.callback \in bad
    THEN [s EXCEPT !.calls = @ \o Augmented(a, TRUE), !.err = "Exception"]
    ELSE [s EXCEPT !.calls = @ \o Augmented(a, FALSE), !.augmentations[k].has_run = TRUE]

\* do_augment running whatever has_run says
do_augment_again(s, k, bad) ==
    IF \/ ~s.augmentations[k].is_enabled
       \/ s.augmentations[k].requester = UiClass(s.augmentations[k].augmenter_plugin)
    THEN s
    ELSE Run(s, k, s.augmentations[k], bad)

\* PluginHandler.do_augment(augmentation) for the Augmentation at place k
do_augment(s, k, bad) ==
    IF \/ s.augmentations[k].has_run
       \/ ~s.augmentations[k].is_enabled
       \/ s.augmentations[k].requester = UiClass(s.augmentations[k].augmenter_plugin)
    THEN s
    ELSE Run(s, k, s.augmentations[k], bad)

\* HookFound calling the augmenter of a plugin that is not enabled as well
HookFoundAlways(s, p, k, bad) == do_augment(s, k, bad)

\* do_augment_hook, lines 249-255: the Augmentation at place k of plugin p
HookFound(s, p, k, bad) ==
    IF p \notin s.enabled_plugins THEN [s EXCEPT !.augmentations[k].is_enabled = FALSE]
    ELSE do_augment(s, k, bad)

\* do_augment_hook, lines 240-247: the Augmentation of (plugin, hook) made if
\* there is none, and looked up
HookLookedUp(s, p, req, bad) == HookFound(s, p, Get(s.augmentations, p, req.hook_name), bad)

HookPlugin(s, p, req, bad) ==
    IF req.hook_name \notin augmenters(p) THEN s
    ELSE HookLookedUp(IF Get(s.augmentations, p, req.hook_name) = 0
                      THEN [s EXCEPT !.augmentations = Append(@, Augmentation(p, req))]
                      ELSE s,
                      p, req, bad)

RECURSIVE HookLoop(_, _, _, _)
\* do_augment_hook: for plugin in self.loaded_plugins
HookLoop(s, req, bad, i) ==
    IF s.err # "" \/ i > Len(s.loaded_plugins) THEN s
    ELSE HookLoop(HookPlugin(s, s.loaded_plugins[i], req, bad), req, bad, i + 1)

\* do_augment_hook running its loop before the plugins are loaded as well
do_augment_hook_eager(s, req, bad) ==
    HookLoop([s EXCEPT !.calls = Append(@, Invoked("hook", req.class_name, req.hook_name,
                                                   req.data, req.callback, FALSE))],
             req, bad, 1)

\* PluginHandler.do_augment_hook(class_name, hook_name, data, callback)
do_augment_hook(s, req, bad) ==
    IF ~s.plugins_loaded
    THEN IF req \in Items(s.waiting_augmentations) THEN s
         ELSE [s EXCEPT !.waiting_augmentations = Append(@, req)]
    ELSE HookLoop([s EXCEPT !.calls = Append(@, Invoked("hook", req.class_name, req.hook_name,
                                                        req.data, req.callback, FALSE))],
                  req, bad, 1)

\* PluginHandler.assign_dock_shortcuts: the toggle action of every dock is
\* enabled and visible as the dock is enabled
assign_dock_shortcuts(s) ==
    [s EXCEPT !.toggles = [p \in Plugins |->
                              IF p \in Items(s.loaded_plugins) /\ has_gui(p)
                              THEN s.is_enabled[p] ELSE s.toggles[p]]]

\* the places of augmentations.disabled().for_plugin(name), in order
DisabledFor(augs, name) ==
    { k \in DOMAIN augs : ~augs[k].is_enabled /\ augs[k].augmenter_plugin = name }

RECURSIVE RunDisabled(_, _, _, _)
\* set_plugin_enabled, lines 156-159, for the places ks from place i on
RunDisabled(s, ks, bad, i) ==
    IF s.err # "" \/ i > Len(s.augmentations) THEN s
    ELSE IF i \notin ks \/ s.augmentations[i].has_run THEN RunDisabled(s, ks, bad, i + 1)
    ELSE RunDisabled(do_augment([s EXCEPT !.augmentations[i].is_enabled = TRUE], i, bad),
                     ks, bad, i + 1)

\* set_plugin_enabled, lines 148-152: the flag, the dock signals, the dock hidden
DockSet(s, name, flag) ==
    [s EXCEPT !.is_enabled[name] = flag,
              !.signals[name] = IF has_gui(name) THEN flag ELSE @,
              !.visible[name] = IF has_gui(name) /\ ~flag THEN FALSE ELSE @,
              !.disabled = IF flag THEN @ ELSE @ \cup { name }]

\* set_plugin_enabled, lines 154-160
DockAugmented(s) == IF s.err # "" THEN s ELSE assign_dock_shortcuts(s)

\* set_plugin_enabled disabling a required plugin as any other
set_plugin_enabled_any(s, name, flag, bad) ==
    IF name \notin Items(s.loaded_plugins) THEN s
    ELSE IF flag
    THEN DockAugmented(RunDisabled(DockSet(s, name, flag),
                                   DisabledFor(s.augmentations, name), bad, 1))
    ELSE DockAugmented(DockSet(s, name, flag))

\* PluginHandler.set_plugin_enabled(plugin_name, is_enabled)
set_plugin_enabled(s, name, flag, bad) ==
    IF name \notin Items(s.loaded_plugins) THEN s
    ELSE IF ~flag /\ name \in required_plugins THEN s
    ELSE IF flag
    THEN DockAugmented(RunDisabled(DockSet(s, name, flag),
                                   DisabledFor(s.augmentations, name), bad, 1))
    ELSE DockAugmented(DockSet(s, name, flag))

RECURSIVE UpdateLoop(_, _, _)
\* update_enabled_plugins: for plugin in self.loaded_plugins
UpdateLoop(s, bad, i) ==
    IF s.err # "" \/ i > Len(s.loaded_plugins) THEN s
    ELSE UpdateLoop(set_plugin_enabled(s, s.loaded_plugins[i],
                                       s.loaded_plugins[i] \in s.enabled_plugins, bad),
                    bad, i + 1)

\* PluginHandler.update_enabled_plugins()
update_enabled_plugins(s, bad) == UpdateLoop(s, bad, 1)

\* PluginHandler.on_option_changed(key)
on_option_changed(s, key, bad) ==
    IF key = "enabled_plugins" THEN update_enabled_plugins(s, bad)
    ELSE IF s.loaded_plugins # << >> /\ key = "favorite_plugins" THEN assign_dock_shortcuts(s)
    ELSE s

\* config.set_option(key, value): the option set, and optionChanged emitted to
\* on_option_changed
set_option(s, value, bad) ==
    on_option_changed([s EXCEPT !.enabled_plugins = value], "enabled_plugins", bad)

\* PluginHandler.enable_required_plugins()
enable_required_plugins(s, bad) ==
    IF required_plugins \subseteq s.enabled_plugins THEN s
    ELSE set_option(s, s.enabled_plugins \cup required_plugins, bad)

RECURSIVE WaitingLoop(_, _, _)
\* load_plugins: for i in self.waiting_augmentations: self.do_augment_hook(*i)
WaitingLoop(s, bad, i) ==
    IF s.err # "" \/ i > Len(s.waiting_augmentations) THEN s
    ELSE WaitingLoop(do_augment_hook(s, s.waiting_augmentations[i], bad), bad, i + 1)

\* load_plugins, lines 134-136
LoadedRequired(s, bad) ==
    IF s.err # "" THEN s ELSE WaitingLoop([s EXCEPT !.plugins_loaded = TRUE], bad, 1)

\* load_plugins, line 133
LoadedUpdated(s, bad) ==
    IF s.err # "" THEN s ELSE LoadedRequired(enable_required_plugins(s, bad), bad)

\* load_plugins, lines 126-132: sys.exit(1) when a required plugin is not there
LoadedAll(s, bad) ==
    IF ~(required_plugins \subseteq Items(s.loaded_plugins))
    THEN [s EXCEPT !.exited = TRUE, !.err = "SystemExit"]
    ELSE LoadedUpdated(update_enabled_plugins(s, bad), bad)

\* the names of l that are in the set given, in the order of l
RECURSIVE Among(_, _)
Among(l, names) ==
    IF l = << >> THEN << >>
    ELSE (IF Head(l) \in names THEN << Head(l) >> ELSE << >>) \o Among(Tail(l), names)

\* PluginHandler.load_plugins() with the plugins installed; a new dock has
\* is_enabled as BaseDock makes it (flag)
load_plugins(s, installed, flag, bad) ==
    LoadedAll([s EXCEPT !.loaded_plugins = @ \o Among(PluginNames, installed),
                        !.is_enabled = [p \in Plugins |-> IF p \in installed THEN flag ELSE @[p]]],
              bad)

\* the values of the enabled_plugins option
ConfigChoices == { { "Blockchain" }, { "Variables", "Wallet RPC" }, Plugins }

\* the sets of plugins that may be installed
InstalledChoices == { Plugins, { "Blockchain", "Wallet RPC" } }

\* the augmenters (by plugin) and callbacks that raise an exception during a call
RaisingChoices == { {}, { "Blockchain" }, { "cb1" } }

PluginInit ==
    /\ \E enabled \in ConfigChoices : handler = PluginHandler(enabled)
    /\ WindowIdle
    /\ CodecIdle
    /\ ListsIdle
    /\ ScriptIdle

\* a call made on the handler s came to t
PluginDone(op, name, arg, t) ==
    /\ nops < MaxPluginOps
    /\ ~handler.exited
    /\ nops' = nops + 1
    /\ handler' = t
    /\ last' = Call(op, name, 0, arg, << >>, t.err)
    /\ UNCHANGED << codecVars, listVars, scriptVars, window >>

\* the handler before a call
Ready == [handler EXCEPT !.err = ""]

\* handler.load_plugins(), called once by the main window
LoadPlugins ==
    \E installed \in InstalledChoices, flag \in BOOLEAN, bad \in RaisingChoices :
        /\ handler.loaded_plugins = << >>
        /\ PluginDone("load_plugins", "", None, load_plugins(Ready, installed, flag, bad))

\* handler.do_augment_hook(class_name, hook_name, data, callback)
DoAugmentHook ==
    \E req \in Requests, bad \in RaisingChoices :
        PluginDone("do_augment_hook", "", Some(req), do_augment_hook(Ready, req, bad))

\* handler.set_plugin_enabled(plugin_name, is_enabled)
SetPluginEnabled ==
    \E name \in Plugins, flag \in BOOLEAN, bad \in RaisingChoices :
        PluginDone("set_plugin_enabled", name, Some(flag),
                   set_plugin_enabled(Ready, name, flag, bad))

\* handler.update_enabled_plugins()
UpdateEnabledPlugins ==
    \E bad \in RaisingChoices :
        PluginDone("update_enabled_plugins", "", None, update_enabled_plugins(Ready, bad))

\* the enabled_plugins option set in the config, which emits optionChanged
EnabledPluginsChanged ==
    \E value \in ConfigChoices, bad \in RaisingChoices :
        PluginDone("on_option_changed", "enabled_plugins", Some(value),
                   set_option(Ready, value, bad))

\* handler.on_option_changed('favorite_plugins')
FavoritePluginsChanged ==
    PluginDone("on_option_changed", "favorite_plugins", None,
               on_option_changed(Ready, "favorite_plugins", {}))

PluginNext ==
    \/ LoadPlugins
    \/ DoAugmentHook
    \/ SetPluginEnabled
    \/ UpdateEnabledPlugins
    \/ EnabledPluginsChanged
    \/ FavoritePluginsChanged

SpecPlugins == PluginInit /\ [][PluginNext]_vars


\* C17: a required plugin cannot be disabled.  No operation sets the enabled
\* flag of a plugin of required_plugins to False or disconnects its dock
\* signals: the plugin is never among those disabled, its flag and its signals,
\* once on, stay on; and set_plugin_enabled(name, False) for a loaded required
\* plugin leaves the handler as it was.
C17_RequiredStay ==
    [][ /\ \A p \in required_plugins :
              /\ p \notin handler'.disabled
              /\ handler.is_enabled[p] => handler'.is_enabled[p]
              /\ handler.signals[p] => handler'.signals[p]
        /\ (last'.op = "set_plugin_enabled" /\ last'.name \in required_plugins
            /\ last'.arg = Some(FALSE))
           => handler' = Ready ]_vars

\* set_plugin_enabled('Variables', False) was called with the plugin loaded,
\* enabled and its dock signals connected
C17_Witness ==
    /\ last.op = "set_plugin_enabled"
    /\ last.name = "Variables"
    /\ last.arg = Some(FALSE)
    /\ "Variables" \in Items(handler.loaded_plugins)
    /\ handler.is_enabled["Variables"]
    /\ handler.signals["Variables"]


\* the places in the log where the augmenter of (plugin, hook) was invoked
AugmenterCalls(calls, p, h) ==
    { k \in DOMAIN calls : calls[k].kind = "augmenter" /\ calls[k].plugin = p
                           /\ calls[k].hook_name = h }

\* the places in the log where the callback of (plugin, hook) was invoked
CallbackCalls(calls, p, h) ==
    { k \in DOMAIN calls : calls[k].kind = "callback" /\ calls[k].plugin = p
                           /\ calls[k].hook_name = h }

HookNames == { r.hook_name : r \in Requests }

\* C18 as stated: for every (augmenter plugin, hook name) pair the augmenter
\* function is invoked at most once.
C18_AtMostOnce ==
    \A p \in Plugins, h \in HookNames : Cardinality(AugmenterCalls(handler.calls, p, h)) <= 1

\* the places in the log where a run of the augmentation of (plugin, hook)
\* came to its end: the augmenter returned, and the callback, if any, did
Completed(calls, p, h) ==
    { k \in AugmenterCalls(calls, p, h) :
         /\ ~calls[k].raised
         /\ calls[k].callback # ""
            => (k + 1 \in CallbackCalls(calls, p, h) /\ ~calls[k + 1].raised) }

\* in the handler s a run of an augmentation came to its end at most once,
\* nothing of it was invoked after that, a callback was invoked only after its
\* augmenter returned, and has_run says whether a run came to its end
RunOnce(s) ==
    \A p \in Plugins, h \in HookNames :
        /\ Cardinality(Completed(s.calls, p, h)) <= 1
        /\ \A i \in Completed(s.calls, p, h) :
              \A j \in AugmenterCalls(s.calls, p, h) \cup CallbackCalls(s.calls, p, h) :
                  j <= i + 1
        /\ \A j \in CallbackCalls(s.calls, p, h) :
              j - 1 \in AugmenterCalls(s.calls, p, h) /\ ~s.calls[j - 1].raised
        /\ \A k \in DOMAIN s.augmentations :
              (s.augmentations[k].augmenter_plugin = p /\ s.augmentations[k].hook_name = h)
              => (s.augmentations[k].has_run <=> Completed(s.calls, p, h) # {})

\* C18, amended: an augmentation runs to its end at most once.  For every
\* (augmenter plugin, hook name) pair the call of the augmenter followed by the
\* callback comes to its end at most once; has_run is True exactly when it
\* did; and once has_run is True it stays True and neither the augmenter nor
\* the callback is invoked again.
C18_RunOnce ==
    [][ /\ RunOnce(handler')
        /\ \A k \in DOMAIN handler.augmentations :
              handler.augmentations[k].has_run
              => /\ handler'.augmentations[k].has_run
                 /\ AugmenterCalls(handler'.calls, handler.augmentations[k].augmenter_plugin,
                                   handler.augmentations[k].hook_name)
                    = AugmenterCalls(handler.calls, handler.augmentations[k].augmenter_plugin,
                                     handler.augmentations[k].hook_name)
                 /\ CallbackCalls(handler'.calls, handler.augmentations[k].augmenter_plugin,
                                  handler.augmentations[k].hook_name)
                    = CallbackCalls(handler.calls, handler.augmentations[k].augmenter_plugin,
                                    handler.augmentations[k].hook_name) ]_vars

\* do_augment_hook came to the augmentation of the enabled plugin 'Blockchain'
\* after its augmenter had returned
C18_Witness ==
    /\ last.op = "do_augment_hook"
    /\ last.err = ""
    /\ "Blockchain" \in handler.enabled_plugins
    /\ \E i, j \in DOMAIN handler.calls :
          /\ i < j
          /\ j = Len(handler.calls)
          /\ handler.calls[i].kind = "augmenter"
          /\ handler.calls[i].plugin = "Blockchain"
          /\ ~handler.calls[i].raised
          /\ handler.calls[j].kind = "hook"
          /\ handler.calls[j].plugin # "Blockchain"


IsHook(c) == c.kind = "hook"

\* the requests do_augment_hook went through its loop for, in their order
Hooked(calls) ==
    [k \in DOMAIN SelectSeq(calls, IsHook) |->
        Request(SelectSeq(calls, IsHook)[k].plugin, SelectSeq(calls, IsHook)[k].hook_name,
                SelectSeq(calls, IsHook)[k].data, SelectSeq(calls, IsHook)[k].callback)]

\* C19: hooks requested before the plugins are loaded are deferred.  While
\* plugins_loaded is False a do_augment_hook call invokes nothing and records
\* its request in waiting_augmentations unless it is there already, so the list
\* has no duplicates; a load_plugins call that returns has set plugins_loaded,
\* kept the list, and gone through do_augment_hook for every recorded request,
\* in the order recorded.
C19_Deferred ==
    [][ /\ (last'.op = "do_augment_hook" /\ ~handler.plugins_loaded)
           => /\ handler'.calls = handler.calls
              /\ handler'.augmentations = handler.augmentations
              /\ ~handler'.plugins_loaded
              /\ \E req \in Requests :
                    /\ last'.arg = Some(req)
                    /\ handler'.waiting_augmentations =
                          IF req \in Items(handler.waiting_augmentations)
                          THEN handler.waiting_augmentations
                          ELSE Append(handler.waiting_augmentations, req)
        /\ \A i, j \in DOMAIN handler'.waiting_augmentations :
              handler'.waiting_augmentations[i] = handler'.waiting_augmentations[j] => i = j
        /\ (last'.op = "load_plugins" /\ last'.err = "")
           => /\ handler'.plugins_loaded
              /\ handler'.waiting_augmentations = handler.waiting_augmentations
              /\ Hooked(handler.calls) = << >>
              /\ Hooked(handler'.calls) = handler.waiting_augmentations ]_vars

\* load_plugins returned after two requests were recorded, and an augmenter
\* was called for them
C19_Witness ==
    /\ last.op = "load_plugins"
    /\ last.err = ""
    /\ Len(handler.waiting_augmentations) = 2
    /\ \E k \in DOMAIN handler.calls : handler.calls[k].kind = "augmenter"


\* the places added to the log by a step
Added == DOMAIN handler'.calls \ DOMAIN handler.calls

\* the step called the augmenter of the Augmentation a with the data stored in
\* it, and then, the augmenter having returned, the callback stored in it
RanStored(a) ==
    \E i \in Added :
        /\ handler'.calls[i] \in
              { Invoked("augmenter", a.augmenter_plugin, a.hook_name, a.data, a.callback, r) :
                   r \in BOOLEAN }
        /\ (~handler'.calls[i].raised /\ a.callback # "")
           => /\ i + 1 \in Added
              /\ handler'.calls[i + 1] \in
                    { Invoked("callback", a.augmenter_plugin, a.hook_name, a.data, a.callback, r) :
                         r \in BOOLEAN }

\* the step invoked nothing of the plugin p
NotRun(p) == \A i \in Added : handler'.calls[i].kind = "hook" \/ handler'.calls[i].plugin # p

\* C20: the augmenter of a plugin that is not enabled is not called, and is
\* called when the plugin is enabled.  A do_augment_hook call, the plugins
\* loaded, that finds a loaded augmenter plugin of the hook absent from
\* enabled_plugins invokes nothing of it and leaves its Augmentation with
\* is_enabled False; a set_plugin_enabled(plugin, True) call for a loaded
\* plugin calls the augmenter of each of its Augmentations with is_enabled
\* False with the data and the callback stored in it, and invokes nothing for
\* one that has run or whose requester is the plugin's own UI class.
C20_DisabledThenRun ==
    [][ /\ (last'.op = "do_augment_hook" /\ handler.plugins_loaded)
           => \A p \in Items(handler.loaded_plugins) \ handler.enabled_plugins :
                 \A req \in Requests :
                    (last'.arg = Some(req) /\ req.hook_name \in augmenters(p))
                    => /\ NotRun(p)
                       /\ last'.err = ""
                          => /\ Get(handler'.augmentations, p, req.hook_name) # 0
                             /\ ~handler'.augmentations[Get(handler'.augmentations, p,
                                                           req.hook_name)].is_enabled
        /\ (last'.op = "set_plugin_enabled" /\ last'.arg = Some(TRUE)
            /\ last'.name \in Items(handler.loaded_plugins))
           => \A k \in DisabledFor(handler.augmentations, last'.name) :
                 IF \/ handler.augmentations[k].has_run
                    \/ handler.augmentations[k].requester = UiClass(last'.name)
                 THEN NotRun(last'.name)
                 ELSE /\ RanStored(handler.augmentations[k])
                      /\ handler'.augmentations[k].is_enabled ]_vars

\* 'Blockchain', absent from enabled_plugins when a hook was requested, was
\* enabled by set_plugin_enabled and its augmenter then called with the data
\* and the callback of the request
C20_Witness ==
    /\ last.op = "set_plugin_enabled"
    /\ last.name = "Blockchain"
    /\ last.arg = Some(TRUE)
    /\ last.err = ""
    /\ "Blockchain" \notin handler.enabled_plugins
    /\ Len(handler.calls) >= 3
    /\ handler.calls[1].kind = "hook"
    /\ \E i \in DOMAIN handler.calls :
          /\ i + 1 = Len(handler.calls)
          /\ \A j \in 1..(i - 1) : handler.calls[j].plugin # "Blockchain"
          /\ handler.calls[i] = Invoked("augmenter", "Blockchain", "raw_tx", "d1", "cb1", FALSE)
          /\ handler.calls[i + 1] = Invoked("callback", "Blockchain", "raw_tx", "d1", "cb1", FALSE)


\* C21: from_tx on an existing Transaction after the active schema changed.
\* The call makes no new object and touches no other one; afterwards the
\* object holds every field name of the active transaction schema, a value it
\* held being as it was and a missing one being the default declared for it;
\* every other attribute, the object's own field list and the bytes it
\* serializes to are unchanged.
C21_FromTxFills ==
    [][ last'.op = "from_tx"
        => /\ DOMAIN txs' = DOMAIN txs
           /\ \A t \in DOMAIN txs : t # last'.tx => txs'[t] = txs[t]
           /\ \A k \in DOMAIN transaction_fields :
                 /\ txs'[last'.tx].attrs[transaction_fields[k].name] # Absent
                 /\ txs'[last'.tx].attrs[transaction_fields[k].name] =
                       IF txs[last'.tx].attrs[transaction_fields[k].name] # Absent
                       THEN txs[last'.tx].attrs[transaction_fields[k].name]
                       ELSE transaction_fields[k].default
           /\ \A a \in AttrNames \ NamesOf(transaction_fields) :
                 txs'[last'.tx].attrs[a] = txs[last'.tx].attrs[a]
           /\ txs'[last'.tx].fields = txs[last'.tx].fields
           /\ stream_serialize(txs'[last'.tx]) = stream_serialize(txs[last'.tx]) ]_vars

\* from_tx was called on an object made under the Bitcoin schema after another
\* preset became the active one, and the object now holds, with its default,
\* a name of the active list that its own list does not have, beside a value
\* of its own that is not a default
C21_Witness ==
    /\ last.op = "from_tx"
    /\ last.tx \in DOMAIN txs
    /\ txs[last.tx].fields = BitcoinPreset.tx_fields
    /\ applied # "Bitcoin"
    /\ transaction_fields = presets[applied].tx_fields
    /\ \E k \in DOMAIN transaction_fields :
          /\ transaction_fields[k].name \notin NamesOf(txs[last.tx].fields)
          /\ txs[last.tx].attrs[transaction_fields[k].name] = transaction_fields[k].default
    /\ \E k \in DOMAIN txs[last.tx].fields :
          /\ txs[last.tx].fields[k].name \in NamesOf(transaction_fields)
          /\ txs[last.tx].attrs[txs[last.tx].fields[k].name] # txs[last.tx].fields[k].default


\* -------------------------------------------------------------- main window
MaxWindowOps == 3   \* number of user actions in one run

\* A file name: its stem and whether it ends with '.coinscript'; '' is NoName
Name(stem, ext) == [stem |-> stem, ext |-> ext]
NoName == Name("", "")

\* if not filename.endswith('.coinscript'): filename += '.coinscript'
WithExt(fn) == IF fn.ext = ".coinscript" THEN fn ELSE Name(fn.stem, ".coinscript")

\* the files there can be on the disk, and the content of one that is not there
DiskNames == { Name("a", ".coinscript"), Name("b", ".coinscript") }
NoFile == "<no file>"

\* what the editor can hold
Texts == { "", "x", "y" }

\* os.path.exists(filename)
exists(w, fn) == fn \in DiskNames /\ w.files[fn] # NoFile

\* HashmalMain.on_text_changed()
on_text_changed(w) ==
    [w EXCEPT !.changes_saved = (w.text = w.last_saved /\ w.filename # NoName),
              !.title = [filename |-> w.filename,
                         starred |-> ~(w.text = w.last_saved /\ w.filename # NoName)]]

\* script_editor.setPlainText(t) and script_editor.clear(): the text, and the
\* textChanged signal, connected to on_text_changed; emits says whether the
\* signal is emitted when the text stays as it is
SetPlainText(w, t, emits) ==
    IF t # w.text \/ emits THEN on_text_changed([w EXCEPT !.text = t]) ELSE w

\* save_script, lines 186-190: the file written (or open() raising IOError)
Saved(w, fails) ==
    IF fails THEN [w EXCEPT !.err = "IOError"]
    ELSE on_text_changed([w EXCEPT !.files[w.filename] = w.text,
                                   !.written = Append(@, [filename |-> w.filename,
                                                          text |-> w.text]),
                                   !.last_saved = w.text])

\* HashmalMain.save_script(); dialog is what QFileDialog.getSaveFileName returns
save_script(w, dialog, fails) ==
    IF w.filename # NoName THEN Saved([w EXCEPT !.filename = WithExt(w.filename)], fails)
    ELSE IF dialog = NoName THEN w
    ELSE Saved([w EXCEPT !.filename = WithExt(dialog)], fails)

\* HashmalMain.save_script_as()
save_script_as(w, dialog, fails) ==
    IF dialog = NoName THEN w
    ELSE save_script([w EXCEPT !.filename = WithExt(dialog)], dialog, fails)

\* close_script asks whether to save
Prompted(w) == w.text # "" /\ ~w.changes_saved

\* close_script, lines 164-167
Closed(w, emits) ==
    IF w.err # "" THEN w
    ELSE [SetPlainText([w EXCEPT !.filename = NoName, !.changes_saved = TRUE], "", emits)
            EXCEPT !.ret = "True", !.cleared = @ + 1]

\* HashmalMain.close_script(); answer is the button of the message box
close_script(w, answer, dialog, fails, emits) ==
    IF ~Prompted(w) THEN Closed(w, emits)
    ELSE IF answer = "Save" THEN Closed(save_script(w, dialog, fails), emits)
    ELSE IF answer = "Cancel" THEN [w EXCEPT !.ret = "False"]
    ELSE Closed(w, emits)

\* load_script, lines 215-216
Loaded(w) == on_text_changed([w EXCEPT !.last_saved = w.text])

\* HashmalMain.load_script(filename)
load_script(w, fn, emits) ==
    IF exists(w, fn)
    THEN Loaded(SetPlainText([w EXCEPT !.filename = fn, !.loads = Append(@, fn)],
                             w.files[fn], emits))
    ELSE Loaded(SetPlainText([w EXCEPT !.loads = Append(@, fn)], "", emits))

\* os.path.expanduser('Untitled-' + str(time.time()) + '.coinscript')
Untitled == Name("Untitled", ".coinscript")

\* new_script and open_script after close_script
Reopened(w, fn, emits) == IF w.ret = "True" THEN load_script(w, fn, emits) ELSE w

\* HashmalMain.new_script(), called with no file name
new_script(w, answer, dialog, fails, emits) ==
    Reopened(close_script(w, answer, dialog, fails, emits), Untitled, emits)

\* HashmalMain.open_script(); chosen is what QFileDialog.getOpenFileName returns
open_script(w, chosen, answer, dialog, fails, emits) ==
    IF chosen = NoName THEN w
    ELSE Reopened(close_script(w, answer, dialog, fails, emits), chosen, emits)

\* closeEvent, lines 142-145
Answered(w) ==
    IF w.err # "" THEN w
    ELSE [w EXCEPT !.event = IF w.ret = "True" THEN "accept" ELSE "ignore"]

\* HashmalMain.closeEvent(event); keep is the saveLayoutOnExit setting
closeEvent(w, keep, answer, dialog, fails, emits) ==
    Answered(close_script([w EXCEPT !.layout_saved = @ \/ keep], answer, dialog, fails, emits))

\* HashmalMain.__init__: the editor empty, new_script() called, which finds no
\* file of the name it makes; files is what is on the disk
HashmalMain(files) ==
    [filename |-> NoName,
     last_saved |-> "",
     text |-> "",
     changes_saved |-> FALSE,
     title |-> [filename |-> NoName, starred |-> TRUE],
     files |-> files,
     written |-> << >>,
     loads |-> << Untitled >>,
     cleared |-> 1,
     layout_saved |-> FALSE,
     ret |-> "",
     event |-> "",
     err |-> ""]

\* the buttons of the message box
Answers == { "Save", "Discard", "Cancel" }

\* what the file dialogs can return
SaveChoices == { NoName, Name("a", ""), Name("b", ".coinscript") }
OpenChoices == { NoName, Name("a", ".coinscript"), Name("b", ".coinscript") }

WindowInit ==
    /\ \E content \in { NoFile, "x" } :
          window = HashmalMain([fn \in DiskNames |->
                                   IF fn.stem = "a" THEN content ELSE NoFile])
    /\ HandlerIdle
    /\ CodecIdle
    /\ ListsIdle
    /\ ScriptIdle

\* the window before a handler runs
Waiting == [window EXCEPT !.err = "", !.ret = "", !.event = ""]

\* a handler run on the window came to t
WindowDone(op, name, arg, args, t) ==
    /\ nops < MaxWindowOps
    /\ window.event # "accept"
    /\ nops' = nops + 1
    /\ window' = t
    /\ last' = Call(op, name, 0, arg, args, t.err)
    /\ UNCHANGED << codecVars, listVars, scriptVars, handler >>

\* the user edits the text of the script editor
TextEdited ==
    \E t \in Texts :
        /\ t # window.text
        /\ WindowDone("edit", t, None, << >>, SetPlainText(Waiting, t, FALSE))

\* the window is asked to close
CloseEvent ==
    \E keep, fails, emits \in BOOLEAN, answer \in Answers, dialog \in SaveChoices :
        WindowDone("closeEvent", "", Some(answer), << dialog, fails >>,
                   closeEvent(Waiting, keep, answer, dialog, fails, emits))

\* File > New
NewScript ==
    \E fails, emits \in BOOLEAN, answer \in Answers, dialog \in SaveChoices :
        WindowDone("new_script", "", Some(answer), << dialog, fails >>,
                   new_script(Waiting, answer, dialog, fails, emits))

\* File > Open
OpenScript ==
    \E fails, emits \in BOOLEAN, answer \in Answers, dialog \in SaveChoices,
       chosen \in OpenChoices :
        WindowDone("open_script", chosen, Some(answer), << dialog, fails >>,
                   open_script(Waiting, chosen, answer, dialog, fails, emits))

\* File > Save
SaveScript ==
    \E fails \in BOOLEAN, dialog \in SaveChoices :
        WindowDone("save_script", "", None, << dialog, fails >>,
                   save_script(Waiting, dialog, fails))

\* File > Save As...
SaveScriptAs ==
    \E fails \in BOOLEAN, dialog \in SaveChoices :
        WindowDone("save_script_as", "", None, << dialog, fails >>,
                   save_script_as(Waiting, dialog, fails))

WindowNext ==
    \/ TextEdited
    \/ CloseEvent
    \/ NewScript
    \/ OpenScript
    \/ SaveScript
    \/ SaveScriptAs

SpecWindow == WindowInit /\ [][WindowNext]_vars


\* the step ran a handler that calls close_script
CloseCalled ==
    \/ last'.op \in { "closeEvent", "new_script" }
    \/ (last'.op = "open_script" /\ last'.name # NoName)

\* Cancel: close_script returns False; filename, text and changes_saved keep
\* their values; closeEvent ignores the event; no file is loaded
CancelKeeps ==
    (CloseCalled /\ Prompted(window) /\ last'.arg = Some("Cancel"))
    => /\ window'.ret = "False"
       /\ window'.filename = window.filename
       /\ window'.text = window.text
       /\ window'.changes_saved = window.changes_saved
       /\ window'.files = window.files
       /\ window'.loads = window.loads
       /\ last'.op = "closeEvent" => window'.event = "ignore"

\* Save: when the editor was cleared, the text it held had been written
SaveWrites ==
    (CloseCalled /\ Prompted(window) /\ last'.arg = Some("Save")
     /\ window'.cleared > window.cleared)
    => \E fn \in DiskNames :
          window'.written = Append(window.written, [filename |-> fn, text |-> window.text])

\* Discard, or nothing unsaved: filename becomes empty and the editor is cleared
DiscardClears ==
    (CloseCalled /\ (~Prompted(window) \/ last'.arg = Some("Discard")))
    => /\ window'.ret = "True"
       /\ window'.cleared = window.cleared + 1
       /\ last'.op = "closeEvent" => (window'.filename = NoName /\ window'.text = ""
                                      /\ window'.event = "accept")

\* C22: closing a script.  With unsaved, non-empty text and the answer Cancel
\* nothing changes: close_script returns False, filename, editor text and
\* changes_saved keep their values, closeEvent ignores the close, new_script
\* and open_script load no file.  With Save the text is written before the
\* editor is cleared.  With Discard, or with nothing unsaved, filename becomes
\* empty and the editor is cleared.
C22_CloseScript == [][ CancelKeeps /\ SaveWrites /\ DiscardClears ]_vars

\* the parts of C22 that do not depend on the file being written
C22_CancelAndDiscard == [][ CancelKeeps /\ DiscardClears ]_vars

====
